---- MODULE Spec2Model ----
(***************************************************************************)
(* Resume checker service: the three POST /analyze handlers (app.py,       *)
(* index.py, main.py), the text extractors, the remote scorers and the     *)
(* deterministic scorer DeterministicATSAnalyzer of main.py with           *)
(* merge_analysis_results.                                                 *)
(***************************************************************************)
EXTENDS Integers, Sequences, FiniteSets, TLC

(***************************************************************************)
(* Python float arithmetic (IEEE-754 binary64, round to nearest even).     *)
(* A non-negative double is [n |-> N, e |-> E] with value N * 2^E, where N *)
(* is an odd natural number of at most 53 bits (or zero) held as a         *)
(* little-endian sequence of limbs in base 2^15.                           *)
(***************************************************************************)
\* 2^k for k in 0..15
Pow2(k) == <<1, 2, 4, 8, 16, 32, 64, 128, 256, 512, 1024, 2048, 4096, 8192,
             16384, 32768>>[k + 1]

LimbBase == Pow2(15)

\* F(v), where v is evaluated before F is applied
Apply(F(_), v) == CHOOSE r \in {F(x) : x \in {v}} : TRUE

RECURSIVE BNorm(_)
BNorm(a) == IF a = <<>> THEN a
            ELSE IF a[Len(a)] = 0 THEN BNorm(SubSeq(a, 1, Len(a) - 1))
            ELSE a

RECURSIVE BFromInt(_)
BFromInt(k) == IF k = 0 THEN <<>>
               ELSE <<k % LimbBase>> \o BFromInt(k \div LimbBase)

RECURSIVE BToInt(_)
BToInt(a) == IF a = <<>> THEN 0 ELSE a[1] + LimbBase * BToInt(Tail(a))

RECURSIVE BAddC(_, _, _)
BAddC(a, b, c) ==
    IF a = <<>> /\ b = <<>> THEN (IF c = 0 THEN <<>> ELSE <<c>>)
    ELSE LET x == IF a = <<>> THEN 0 ELSE a[1]
             y == IF b = <<>> THEN 0 ELSE b[1]
             s == x + y + c
         IN  <<s % LimbBase>> \o
             BAddC(IF a = <<>> THEN a ELSE Tail(a),
                   IF b = <<>> THEN b ELSE Tail(b), s \div LimbBase)

BAdd(a, b) == BAddC(a, b, 0)

RECURSIVE BMulSmallC(_, _, _)
BMulSmallC(a, k, c) ==
    IF a = <<>> THEN (IF c = 0 THEN <<>> ELSE BFromInt(c))
    ELSE LET p == a[1] * k + c
         IN  <<p % LimbBase>> \o BMulSmallC(Tail(a), k, p \div LimbBase)

BMulSmall(a, k) == IF k = 0 THEN <<>> ELSE BMulSmallC(a, k, 0)

RECURSIVE BMul(_, _)
BMul(a, b) == IF b = <<>> \/ a = <<>> THEN <<>>
              ELSE BAdd(BMulSmall(a, b[1]), <<0>> \o BMul(a, Tail(b)))

\* quotient and remainder of a by a small k, most significant limb first
RECURSIVE BDivSmallR(_, _, _, _)
BDivSmallR(a, k, i, r) ==
    IF i = 0 THEN [quo |-> <<>>, rem |-> r]
    ELSE LET cur  == r * LimbBase + a[i]
             rest == BDivSmallR(a, k, i - 1, cur % k)
         IN  [quo |-> rest.quo \o <<cur \div k>>, rem |-> rest.rem]

BDivSmall(a, k) == Apply(LAMBDA d : [quo |-> BNorm(d.quo), rem |-> d.rem],
                         BDivSmallR(a, k, Len(a), 0))

BShl(a, bits) == IF a = <<>> THEN a
                 ELSE [i \in 1..(bits \div 15) |-> 0]
                      \o BMulSmall(a, Pow2(bits % 15))

BShr(a, bits) ==
    IF bits \div 15 >= Len(a) THEN <<>>
    ELSE BDivSmall(SubSeq(a, bits \div 15 + 1, Len(a)), Pow2(bits % 15)).quo

\* number of bits of a
BBitLen(a) ==
    IF a = <<>> THEN 0
    ELSE 15 * (Len(a) - 1) + 1
         + CHOOSE j \in 0..14 : /\ Pow2(j) <= a[Len(a)]
                                /\ a[Len(a)] < Pow2(j + 1)

BBit(a, i) == IF i \div 15 + 1 > Len(a) THEN 0
              ELSE (a[i \div 15 + 1] \div Pow2(i % 15)) % 2

\* some bit below position k is set
BLowNonZero(a, k) ==
    \/ \E i \in 1..(k \div 15) : i <= Len(a) /\ a[i] # 0
    \/ /\ k \div 15 + 1 <= Len(a)
       /\ a[k \div 15 + 1] % Pow2(k % 15) # 0

\* -1, 0, 1 as a < b, a = b, a > b (both normalised)
RECURSIVE BCmpAt(_, _, _)
BCmpAt(a, b, i) == IF i = 0 THEN 0
                   ELSE IF a[i] < b[i] THEN -1
                   ELSE IF a[i] > b[i] THEN 1
                   ELSE BCmpAt(a, b, i - 1)

BCmp(a, b) == IF Len(a) < Len(b) THEN -1
              ELSE IF Len(a) > Len(b) THEN 1
              ELSE BCmpAt(a, b, Len(a))

\* a - b for a >= b
RECURSIVE BSubC(_, _, _)
BSubC(a, b, c) ==
    IF a = <<>> THEN <<>>
    ELSE LET y == IF b = <<>> THEN 0 ELSE b[1]
             d == a[1] - y - c
         IN  <<IF d < 0 THEN d + LimbBase ELSE d>> \o
             BSubC(Tail(a), IF b = <<>> THEN b ELSE Tail(b),
                   IF d < 0 THEN 1 ELSE 0)

BSub(a, b) == BNorm(BSubC(a, b, 0))

\* Binary long division of a by b over the bits i down to lo of a, continuing
\* from the quotient q and remainder r of the bits above i
RECURSIVE BDivRun(_, _, _, _, _, _)
BDivRun(a, b, i, lo, q, r) ==
    IF i < lo THEN [quo |-> BNorm(q), rem |-> BNorm(r)]
    ELSE Apply(LAMBDA r2 :
                   IF BCmp(r2, b) >= 0
                   THEN BDivRun(a, b, i - 1, lo, BAdd(BShl(q, 1), <<1>>),
                                BSub(r2, b))
                   ELSE BDivRun(a, b, i - 1, lo, BShl(q, 1), r2),
               BNorm(BAdd(BShl(r, 1), BFromInt(BBit(a, i)))))

\* the division is run limb by limb of a, most significant limb first
RECURSIVE BDivFrom(_, _, _)
BDivFrom(a, b, c) ==
    IF c > Len(a) THEN [quo |-> <<>>, rem |-> <<>>]
    ELSE Apply(LAMBDA hi : BDivRun(a, b, 15 * c - 1, 15 * (c - 1),
                                   hi.quo, hi.rem),
               BDivFrom(a, b, c + 1))

\* floor(a / b) and whether the division left a remainder
BDiv(a, b) ==
    IF Len(b) = 1
    THEN Apply(LAMBDA d : [quo |-> d.quo, inexact |-> d.rem # 0],
               BDivSmall(a, b[1]))
    ELSE Apply(LAMBDA d : [quo |-> d.quo, inexact |-> d.rem # <<>>],
               BDivFrom(a, b, 1))

\* N * 2^E without the zero limbs at the low end of N
RECURSIVE FDropLimbs(_, _)
FDropLimbs(N, E) == IF N # <<>> /\ N[1] = 0 THEN FDropLimbs(Tail(N), E + 15)
                    ELSE [n |-> N, e |-> E]

\* N * 2^E with an odd significand
FOdd(N, E) ==
    Apply(LAMBDA a :
              IF a.n = <<>> THEN [n |-> <<>>, e |-> 0]
              ELSE LET k == CHOOSE j \in 0..14 : /\ a.n[1] % Pow2(j) = 0
                                                 /\ a.n[1] % Pow2(j + 1) # 0
                   IN  [n |-> BShr(a.n, k), e |-> a.e + k],
          FDropLimbs(BNorm(N), E))

\* round N * 2^E to 53 significant bits, ties to even
Round53(N, E) ==
    LET s == IF BBitLen(N) > 53 THEN BBitLen(N) - 53 ELSE 0
    IN  FOdd(IF s = 0 THEN N
             ELSE Apply(LAMBDA q :
                            IF /\ BBit(N, s - 1) = 1
                               /\ (BLowNonZero(N, s - 1) \/ BBit(q, 0) = 1)
                            THEN BAdd(q, <<1>>) ELSE q,
                        BShr(N, s)),
             E + s)

FFromInt(k) == FOdd(BFromInt(k), 0)

FAdd(x, y) ==
    IF x.n = <<>> THEN y
    ELSE IF y.n = <<>> THEN x
    ELSE LET E == IF x.e < y.e THEN x.e ELSE y.e
         IN  Round53(BAdd(BShl(x.n, x.e - E), BShl(y.n, y.e - E)), E)

FMul(x, y) == IF x.n = <<>> \/ y.n = <<>> THEN [n |-> <<>>, e |-> 0]
              ELSE Round53(BMul(x.n, y.n), x.e + y.e)

\* x / y: the quotient is taken with 2 guard bits and a sticky bit
FDiv(x, y) ==
    IF x.n = <<>> THEN [n |-> <<>>, e |-> 0]
    ELSE LET sh == 56 + BBitLen(y.n) - BBitLen(x.n)
         IN  Apply(LAMBDA d :
                       Round53(BAdd(BShl(d.quo, 1),
                                    IF d.inexact THEN <<1>> ELSE <<>>),
                               x.e - y.e - sh - 1),
                   BDiv(BShl(x.n, sh), y.n))

\* int / int (Python true division)
FDivInt(m, k) == FDiv(FFromInt(m), FFromInt(k))

\* int(x): truncation toward zero of a non-negative float
FTrunc(x) == IF x.n = <<>> THEN 0
             ELSE IF x.e >= 0 THEN BToInt(BShl(x.n, x.e))
             ELSE BToInt(BShr(x.n, 0 - x.e))

\* x > y
FGreater(x, y) ==
    IF x.n = <<>> THEN FALSE
    ELSE IF y.n = <<>> THEN TRUE
    ELSE LET E == IF x.e < y.e THEN x.e ELSE y.e
         IN  BCmp(BNorm(BShl(x.n, x.e - E)), BNorm(BShl(y.n, y.e - E))) > 0

\* round(x, 1): the tenth nearest to the exact value of x (ties to even),
\* as the nearest double
FRound1(x) ==
    IF x.n = <<>> THEN [n |-> <<>>, e |-> 0]
    ELSE LET s == 0 - x.e
             Tenths(num) ==
                 IF x.e >= 0 THEN BShl(num, x.e)
                 ELSE Apply(LAMBDA q :
                                IF /\ BBit(num, s - 1) = 1
                                   /\ (BLowNonZero(num, s - 1)
                                       \/ BBit(q, 0) = 1)
                                THEN BAdd(q, <<1>>) ELSE q,
                            BShr(num, s))
         IN  FDiv([n |-> BNorm(Apply(Tenths, BMulSmall(x.n, 10))), e |-> 0],
                  FFromInt(10))

(***************************************************************************)
(* Python list and dict helpers.                                           *)
(***************************************************************************)
Min(a, b) == IF a < b THEN a ELSE b
Max(a, b) == IF a > b THEN a ELSE b

\* s[:n]
Take(s, n) == SubSeq(s, 1, Min(n, Len(s)))
\* s[n:]
Drop(s, n) == SubSeq(s, Min(n, Len(s)) + 1, Len(s))
\* x in s
InSeq(x, s) == \E i \in DOMAIN s : s[i] = x
\* s without the elements that occur earlier in s
RECURSIVE FirstOccurrences(_)
FirstOccurrences(s) ==
    IF s = <<>> THEN s
    ELSE LET init == FirstOccurrences(SubSeq(s, 1, Len(s) - 1))
         IN  IF InSeq(s[Len(s)], init) THEN init ELSE Append(init, s[Len(s)])
\* d.get(k, default)
Get(d, k, default) == IF k \in DOMAIN d THEN d[k] ELSE default

(***************************************************************************)
(* Class-level tables of DeterministicATSAnalyzer.                         *)
(***************************************************************************)
TECH_KEYWORDS == [
    languages     |-> <<"python", "java", "javascript", "typescript", "c++",
                      "c#", "ruby", "go", "rust", "php", "swift", "kotlin",
                      "scala", "sql", "r", "matlab">>,
    frameworks    |-> <<"react", "angular", "vue", "node", "django", "flask",
                      "spring", "express", "rails", "laravel", "nextjs",
                      "gatsby", "svelte">>,
    cloud         |-> <<"aws", "azure", "gcp", "google cloud", "docker",
                      "kubernetes", "terraform", "jenkins", "ci/cd",
                      "devops">>,
    data          |-> <<"machine learning", "deep learning", "data science",
                      "analytics", "big data", "hadoop", "spark",
                      "tensorflow", "pytorch", "pandas", "numpy">>,
    tools         |-> <<"git", "github", "gitlab", "jira", "confluence",
                      "slack", "figma", "sketch", "postman", "mongodb",
                      "postgresql", "mysql", "redis">> ]

BUSINESS_KEYWORDS == [
    management    |-> <<"project management", "team lead", "stakeholder",
                      "budget", "strategy", "planning", "coordination",
                      "leadership">>,
    analysis      |-> <<"business analysis", "requirements",
                      "process improvement", "data analysis", "reporting",
                      "metrics", "kpi">>,
    communication |-> <<"presentation", "negotiation", "client relations",
                      "cross-functional", "collaboration">>,
    methodologies |-> <<"agile", "scrum", "waterfall", "lean", "six sigma",
                      "kanban", "pmp", "prince2">> ]

ACTION_VERBS == [
    high_impact   |-> <<"achieved", "accelerated", "delivered", "exceeded",
                      "generated", "increased", "launched", "led",
                      "optimized", "pioneered", "reduced", "saved",
                      "spearheaded", "streamlined", "transformed">>,
    medium_impact |-> <<"analyzed", "built", "collaborated", "coordinated",
                      "created", "designed", "developed", "established",
                      "implemented", "improved", "managed", "organized",
                      "produced">>,
    standard      |-> <<"assisted", "conducted", "contributed", "executed",
                      "facilitated", "handled", "maintained", "participated",
                      "performed", "prepared", "processed", "provided",
                      "supported">> ]

ESSENTIAL_SECTIONS == <<"contact", "experience", "education", "skills">>
RECOMMENDED_SECTIONS ==
    <<"summary", "projects", "certifications", "achievements", "awards">>

\* the class attributes of DeterministicATSAnalyzer as the class body sets them
DeterministicATSAnalyzer ==
    [TECH_KEYWORDS        |-> TECH_KEYWORDS,
     BUSINESS_KEYWORDS    |-> BUSINESS_KEYWORDS,
     ACTION_VERBS         |-> ACTION_VERBS,
     ESSENTIAL_SECTIONS   |-> ESSENTIAL_SECTIONS,
     RECOMMENDED_SECTIONS |-> RECOMMENDED_SECTIONS]

\* the keywords of a table in iteration order of its categories
TechList(self) ==
    self.TECH_KEYWORDS.languages \o self.TECH_KEYWORDS.frameworks \o
    self.TECH_KEYWORDS.cloud \o self.TECH_KEYWORDS.data \o
    self.TECH_KEYWORDS.tools
BusinessList(self) ==
    self.BUSINESS_KEYWORDS.management \o self.BUSINESS_KEYWORDS.analysis \o
    self.BUSINESS_KEYWORDS.communication \o
    self.BUSINESS_KEYWORDS.methodologies

(***************************************************************************)
(* Texts.  A resume text is the record of what the scans of the source     *)
(* find in it:                                                             *)
(*   tokens    the vocabulary words and phrases written in the text,       *)
(*             other than action verbs                                     *)
(*   email, phone, locPat  email_pattern, phone_pattern and the            *)
(*             "City, ST" pattern match                                    *)
(*   headers   number of matches of the header pattern                     *)
(*   years     the groups (19 or 20) captured by the year pattern          *)
(*   quant     total number of matches of the quantified patterns          *)
(*   verbs     the action verbs that start a word of the text              *)
(*   bullets, pipes, dates, problem   counts of bullet marks, of "|",      *)
(*             of date_formats matches and of problematic characters       *)
(*   nonAscii  a run of 10 or more non-ASCII characters occurs             *)
(*   expWords  number of words of the experience section match             *)
(*   words, sentences, paragraphs, lines, chars   the document counts      *)
(*   stripped  len(text.strip()), prefix  the word the text starts with    *)
(* A job description is the sequence of its lower-case alphabetic words;   *)
(* the empty description is the empty sequence.                            *)
(***************************************************************************)
\* the vocabulary strings that are proper substrings of a token
SubstringsOf ==
    {<<"javascript", {"java", "r"}>>,
     <<"typescript", {"r"}>>,
     <<"ruby", {"r"}>>,
     <<"rust", {"r"}>>,
     <<"react", {"r"}>>,
     <<"angular", {"r"}>>,
     <<"django", {"go"}>>,
     <<"spring", {"r"}>>,
     <<"express", {"r"}>>,
     <<"rails", {"r"}>>,
     <<"laravel", {"r"}>>,
     <<"azure", {"r"}>>,
     <<"google cloud", {"go", "cloud"}>>,
     <<"docker", {"r"}>>,
     <<"kubernetes", {"r"}>>,
     <<"terraform", {"r"}>>,
     <<"machine learning", {"r"}>>,
     <<"deep learning", {"r"}>>,
     <<"data science", {"data"}>>,
     <<"big data", {"data"}>>,
     <<"spark", {"r"}>>,
     <<"tensorflow", {"r"}>>,
     <<"pytorch", {"r"}>>,
     <<"pandas", {"and"}>>,
     <<"github", {"git"}>>,
     <<"gitlab", {"git"}>>,
     <<"jira", {"r"}>>,
     <<"mongodb", {"go"}>>,
     <<"postgresql", {"sql", "r"}>>,
     <<"mysql", {"sql"}>>,
     <<"redis", {"r"}>>,
     <<"project management", {"r"}>>,
     <<"team lead", {"lead", "team"}>>,
     <<"stakeholder", {"r"}>>,
     <<"strategy", {"r"}>>,
     <<"coordination", {"r"}>>,
     <<"leadership", {"r", "lead"}>>,
     <<"requirements", {"r"}>>,
     <<"process improvement", {"r"}>>,
     <<"data analysis", {"data"}>>,
     <<"reporting", {"r"}>>,
     <<"metrics", {"r"}>>,
     <<"presentation", {"r"}>>,
     <<"negotiation", {"go"}>>,
     <<"client relations", {"r"}>>,
     <<"cross-functional", {"r"}>>,
     <<"collaboration", {"r"}>>,
     <<"scrum", {"r"}>>,
     <<"waterfall", {"r"}>>,
     <<"prince2", {"r"}>>,
     <<"country", {"r"}>>,
     <<"address", {"r"}>>,
     <<"remote", {"r"}>>,
     <<"portfolio", {"r"}>>,
     <<"senior", {"r"}>>,
     <<"manager", {"r"}>>,
     <<"director", {"r"}>>,
     <<"principal", {"r"}>>,
     <<"architect", {"r"}>>,
     <<"promoted", {"r"}>>,
     <<"experience", {"r"}>>,
     <<"work history", {"r"}>>,
     <<"professional experience", {"r", "experience"}>>,
     <<"degree", {"r"}>>,
     <<"university", {"r"}>>,
     <<"technical skills", {"skills"}>>,
     <<"expertise", {"r"}>>,
     <<"proficiencies", {"r"}>>,
     <<"summary", {"r"}>>,
     <<"profile", {"r"}>>,
     <<"professional summary", {"r", "summary"}>>,
     <<"projects", {"r"}>>,
     <<"work samples", {"r"}>>,
     <<"certification", {"r"}>>,
     <<"credentials", {"r"}>>,
     <<"award", {"r"}>>,
     <<"honor", {"r"}>>,
     <<"accelerated", {"r"}>>,
     <<"delivered", {"r"}>>,
     <<"generated", {"r"}>>,
     <<"increased", {"r"}>>,
     <<"pioneered", {"r"}>>,
     <<"reduced", {"r"}>>,
     <<"spearheaded", {"r", "head"}>>,
     <<"streamlined", {"r"}>>,
     <<"transformed", {"r"}>>,
     <<"collaborated", {"r"}>>,
     <<"coordinated", {"r"}>>,
     <<"created", {"r"}>>,
     <<"improved", {"r"}>>,
     <<"organized", {"r"}>>,
     <<"produced", {"r"}>>,
     <<"contributed", {"r"}>>,
     <<"handled", {"led", "and"}>>,
     <<"participated", {"r"}>>,
     <<"performed", {"r"}>>,
     <<"prepared", {"r"}>>,
     <<"processed", {"r"}>>,
     <<"provided", {"r"}>>,
     <<"supported", {"r"}>>,
     <<"engineer", {"r"}>>}

\* words of 4 or more letters of the tokens that are not one alphabetic word
LongWordsOf ==
    {<<"c++", {}>>,
     <<"c#", {}>>,
     <<"google cloud", {"google", "cloud"}>>,
     <<"ci/cd", {}>>,
     <<"machine learning", {"machine", "learning"}>>,
     <<"deep learning", {"deep", "learning"}>>,
     <<"data science", {"data", "science"}>>,
     <<"big data", {"data"}>>,
     <<"project management", {"project", "management"}>>,
     <<"team lead", {"team", "lead"}>>,
     <<"business analysis", {"business", "analysis"}>>,
     <<"process improvement", {"process", "improvement"}>>,
     <<"data analysis", {"data", "analysis"}>>,
     <<"client relations", {"client", "relations"}>>,
     <<"cross-functional", {"cross", "functional"}>>,
     <<"six sigma", {"sigma"}>>,
     <<"prince2", {}>>,
     <<"work history", {"work", "history"}>>,
     <<"professional experience", {"professional", "experience"}>>,
     <<"technical skills", {"technical", "skills"}>>,
     <<"about me", {"about"}>>,
     <<"professional summary", {"professional", "summary"}>>,
     <<"work samples", {"work", "samples"}>>}

\* the vocabulary words and phrases written in the text
Written(t) == t.tokens \cup t.verbs

\* s in self.resume_lower
Contains(t, s) ==
    \E tok \in Written(t) :
        \/ tok = s
        \/ \E p \in SubstringsOf : p[1] = tok /\ s \in p[2]

LongWords(tok) ==
    IF \E p \in LongWordsOf : p[1] = tok
    THEN (CHOOSE p \in LongWordsOf : p[1] = tok)[2]
    ELSE IF Len(tok) >= 4 THEN {tok} ELSE {}

(***************************************************************************)
(* DeterministicATSAnalyzer.  self is [metrics, scores]; every method is   *)
(* an operator from the text t, the job description jd and self to         *)
(* [self |-> the object after the call, ret |-> the value returned].       *)
(***************************************************************************)
\* the instance sees the class attributes; metrics and scores start empty
__init__(cls) == [metrics |-> <<>>, scores |-> <<>>] @@ cls

\* the class attributes as an instance leaves them
ClassOf(self) == [a \in DOMAIN DeterministicATSAnalyzer |-> self[a]]

_analyze_document_metrics(t, self) ==
    [self |-> [self EXCEPT !.metrics =
                 [word_count          |-> t.words,
                  sentence_count      |-> t.sentences,
                  paragraph_count     |-> t.paragraphs,
                  line_count          |-> t.lines,
                  avg_sentence_length |->
                      FDivInt(t.words, Max(t.sentences, 1)),
                  char_count          |-> t.chars] @@ @],
     ret  |-> "None"]

\* _analyze_contact_info with score = 25 in place of score += 25 for the phone
_analyze_contact_info_resetting(t, self) ==
    LET has_email    == t.email
        has_phone    == t.phone
        has_linkedin == Contains(t, "linkedin")
        has_location ==
            \/ \E loc \in {"city", "state", "country", "location", "address",
                           "remote"} : Contains(t, loc)
            \/ t.locPat
        has_professional_link ==
            \E site \in {"github", "portfolio", "gitlab", "bitbucket",
                         "website"} : Contains(t, site)
        score == (IF has_phone THEN 25 ELSE IF has_email THEN 25 ELSE 0)
                 + (IF has_linkedin THEN 20 ELSE 0)
                 + (IF has_location THEN 15 ELSE 0)
                 + (IF has_professional_link THEN 15 ELSE 0)
    IN  [self |-> [self EXCEPT
                   !.metrics = [has_email             |-> has_email,
                                has_phone             |-> has_phone,
                                has_linkedin          |-> has_linkedin,
                                has_location          |-> has_location,
                                has_professional_link |->
                                    has_professional_link] @@ @,
                   !.scores  = [contact |-> score] @@ @],
         ret  |-> score]

_analyze_contact_info(t, self) ==
    LET has_email    == t.email
        has_phone    == t.phone
        has_linkedin == Contains(t, "linkedin")
        has_location ==
            \/ \E loc \in {"city", "state", "country", "location", "address",
                           "remote"} : Contains(t, loc)
            \/ t.locPat
        has_professional_link ==
            \E site \in {"github", "portfolio", "gitlab", "bitbucket",
                         "website"} : Contains(t, site)
        score == (IF has_email THEN 25 ELSE 0) + (IF has_phone THEN 25 ELSE 0)
                 + (IF has_linkedin THEN 20 ELSE 0)
                 + (IF has_location THEN 15 ELSE 0)
                 + (IF has_professional_link THEN 15 ELSE 0)
    IN  [self |-> [self EXCEPT
                   !.metrics = [has_email             |-> has_email,
                                has_phone             |-> has_phone,
                                has_linkedin          |-> has_linkedin,
                                has_location          |-> has_location,
                                has_professional_link |->
                                    has_professional_link] @@ @,
                   !.scores  = [contact |-> score] @@ @],
         ret  |-> score]

\* the alternatives of section_patterns, in the order of the dict
SectionNames == <<"contact", "experience", "education", "skills", "summary",
                  "projects", "certifications", "achievements">>
section_patterns == [
    contact        |-> {"contact", "email", "phone"},
    experience     |-> {"experience", "work history", "employment",
                        "professional experience"},
    education      |-> {"education", "academic", "degree", "university",
                        "college"},
    skills         |-> {"skills", "technical skills", "competencies",
                        "expertise", "proficiencies"},
    summary        |-> {"summary", "objective", "profile", "about me",
                        "professional summary"},
    projects       |-> {"projects", "portfolio", "work samples"},
    certifications |-> {"certification", "license", "credentials"},
    achievements   |-> {"achievement", "accomplishment", "award", "honor"} ]

\* number of i with year_ints[i] >= year_ints[i+1]
DescendingPairs(year_ints) ==
    Cardinality({i \in 1..(Len(year_ints) - 1) :
                    year_ints[i] >= year_ints[i + 1]})

\* _analyze_structure returning the score without the cut to 100
_analyze_structure_uncut(t, self) ==
    LET found_sections ==
            SelectSeq(SectionNames,
                      LAMBDA sec : \E w \in section_patterns[sec] :
                                       Contains(t, w))
        essential   == Len(SelectSeq(self.ESSENTIAL_SECTIONS,
                                     LAMBDA sec : InSeq(sec, found_sections)))
        recommended == Len(SelectSeq(self.RECOMMENDED_SECTIONS,
                                     LAMBDA sec : InSeq(sec, found_sections)))
        headerBonus == IF t.headers >= 3 THEN 10 ELSE 0
        year_ints   == Take(t.years, 6)
        is_chronological ==
            DescendingPairs(year_ints) = Len(year_ints) - 1
        chronoBonus ==
            IF /\ Len(t.years) >= 2
               /\ \/ is_chronological
                  \/ DescendingPairs(year_ints) > Len(year_ints) \div 2
            THEN 5 ELSE 0
        score == 17 * essential + 8 * recommended + headerBonus + chronoBonus
        written == [found_sections |-> found_sections,
                    clear_headers  |-> IF t.headers >= 3 THEN TRUE
                                       ELSE t.headers >= 1]
    IN  [self |-> [self EXCEPT
                   !.metrics = (IF t.years # <<>>
                                THEN [has_dates |-> TRUE] @@ written
                                ELSE written) @@ @,
                   !.scores  = [structure |-> Min(score, 100)] @@ @],
         ret  |-> score]

\* _analyze_structure without the else branch that sets clear_headers
_analyze_structure_unset(t, self) ==
    LET found_sections ==
            SelectSeq(SectionNames,
                      LAMBDA sec : \E w \in section_patterns[sec] :
                                       Contains(t, w))
        essential   == Len(SelectSeq(self.ESSENTIAL_SECTIONS,
                                     LAMBDA sec : InSeq(sec, found_sections)))
        recommended == Len(SelectSeq(self.RECOMMENDED_SECTIONS,
                                     LAMBDA sec : InSeq(sec, found_sections)))
        headerBonus == IF t.headers >= 3 THEN 10 ELSE 0
        year_ints   == Take(t.years, 6)
        is_chronological ==
            DescendingPairs(year_ints) = Len(year_ints) - 1
        chronoBonus ==
            IF /\ Len(t.years) >= 2
               /\ \/ is_chronological
                  \/ DescendingPairs(year_ints) > Len(year_ints) \div 2
            THEN 5 ELSE 0
        score == 17 * essential + 8 * recommended + headerBonus + chronoBonus
        written == IF t.headers >= 3
                   THEN [found_sections |-> found_sections,
                         clear_headers  |-> TRUE]
                   ELSE [found_sections |-> found_sections]
    IN  [self |-> [self EXCEPT
                   !.metrics = (IF t.years # <<>>
                                THEN [has_dates |-> TRUE] @@ written
                                ELSE written) @@ @,
                   !.scores  = [structure |-> Min(score, 100)] @@ @],
         ret  |-> Min(score, 100)]

_analyze_structure(t, self) ==
    LET found_sections ==
            SelectSeq(SectionNames,
                      LAMBDA sec : \E w \in section_patterns[sec] :
                                       Contains(t, w))
        essential   == Len(SelectSeq(self.ESSENTIAL_SECTIONS,
                                     LAMBDA sec : InSeq(sec, found_sections)))
        recommended == Len(SelectSeq(self.RECOMMENDED_SECTIONS,
                                     LAMBDA sec : InSeq(sec, found_sections)))
        headerBonus == IF t.headers >= 3 THEN 10 ELSE 0
        year_ints   == Take(t.years, 6)
        is_chronological ==
            DescendingPairs(year_ints) = Len(year_ints) - 1
        chronoBonus ==
            IF /\ Len(t.years) >= 2
               /\ \/ is_chronological
                  \/ DescendingPairs(year_ints) > Len(year_ints) \div 2
            THEN 5 ELSE 0
        score == 17 * essential + 8 * recommended + headerBonus + chronoBonus
        written == [found_sections |-> found_sections,
                    clear_headers  |-> IF t.headers >= 3 THEN TRUE
                                       ELSE t.headers >= 1]
    IN  [self |-> [self EXCEPT
                   !.metrics = (IF t.years # <<>>
                                THEN [has_dates |-> TRUE] @@ written
                                ELSE written) @@ @,
                   !.scores  = [structure |-> Min(score, 100)] @@ @],
         ret  |-> Min(score, 100)]

StopWords == {"the", "and", "for", "are", "with", "will", "you", "our", "your",
              "this", "that", "have", "has", "from", "they", "been", "were",
              "being", "what", "when", "where", "which", "who", "also", "can",
              "may", "must", "should", "would", "could", "than", "then",
              "only", "just", "into", "over", "such", "very", "some", "other"}

\* number of occurrences of w in s
Occurrences(w, s) == Cardinality({i \in DOMAIN s : s[i] = w})

\* sorted(jd_keyword_freq.items(), key=freq, reverse=True)[:20], keys only:
\* the distinct keywords by falling frequency, ties in order of first
\* occurrence
RECURSIVE ByFrequency(_, _, _)
ByFrequency(keys, all, f) ==
    IF f = 0 THEN <<>>
    ELSE SelectSeq(keys, LAMBDA k : Occurrences(k, all) = f)
         \o ByFrequency(keys, all, f - 1)

top_jd_keywords(jd) ==
    LET jd_keywords == SelectSeq(jd, LAMBDA w : Len(w) > 2 /\ w \notin StopWords)
    IN  Take(ByFrequency(FirstOccurrences(jd_keywords), jd_keywords,
                         Len(jd_keywords)), 20)

\* k.lower() in str(self.TECH_KEYWORDS).lower(): of the dictionary keywords
\* exactly the technical ones occur in the printed table
InTechTable(self, k) == InSeq(k, TechList(self))

\* the first 3 keywords of every category of a table that the text lacks
Suggestions(t, table, categories) ==
    LET RECURSIVE Collect(_)
        Collect(i) ==
            IF i > Len(categories) THEN <<>>
            ELSE SelectSeq(Take(table[categories[i]], 3),
                           LAMBDA kw : ~Contains(t, kw)) \o Collect(i + 1)
    IN  Take(Collect(1), 8)

KeywordScore(keyword_count) ==
    IF keyword_count >= 25 THEN 95
    ELSE IF keyword_count >= 20 THEN 88
    ELSE IF keyword_count >= 15 THEN 80
    ELSE IF keyword_count >= 10 THEN 70
    ELSE IF keyword_count >= 7 THEN 60
    ELSE IF keyword_count >= 5 THEN 50
    ELSE IF keyword_count >= 3 THEN 40
    ELSE Max(20, keyword_count * 10)

\* the keywords of the two tables that the text contains, then, with a job
\* description, its top keywords that the text contains
FoundKeywords(t, jd, self) ==
    Apply(LAMBDA dictionary :
              IF jd.given
              THEN dictionary \o
                   SelectSeq(top_jd_keywords(jd.words),
                             LAMBDA kw : Contains(t, kw)
                                         /\ ~InSeq(kw, dictionary))
              ELSE dictionary,
          SelectSeq(TechList(self) \o BusinessList(self),
                    LAMBDA kw : Contains(t, kw)))

\* the top job keywords that the text lacks or, without a job description,
\* suggestions from the table that fits the text
MissingKeywords(t, jd, self, tech_count) ==
    IF jd.given
    THEN SelectSeq(top_jd_keywords(jd.words), LAMBDA kw : ~Contains(t, kw))
    ELSE IF tech_count > 5
         THEN Suggestions(t, self.TECH_KEYWORDS,
                          <<"languages", "frameworks", "cloud", "data",
                            "tools">>)
         ELSE Suggestions(t, self.BUSINESS_KEYWORDS,
                          <<"management", "analysis", "communication",
                            "methodologies">>)

\* the score for the number of keywords, 10 more when over 70% of the job
\* keywords are matched
BoostedKeywordScore(jd, found_keywords, missing_keywords) ==
    LET base == KeywordScore(Len(found_keywords))
    IN  IF /\ jd.given
           /\ missing_keywords # <<>>
           /\ FGreater(FDivInt(Len(found_keywords),
                               Max(Len(found_keywords)
                                   + Len(Take(missing_keywords, 10)), 1)),
                       FDivInt(7, 10))
        THEN Min(base + 10, 100)
        ELSE base

_analyze_keywords(t, jd, self) ==
    Apply(LAMBDA found_keywords :
      Apply(LAMBDA missing_keywords :
        Apply(LAMBDA keyword_score :
                  [self |-> [self EXCEPT
                       !.metrics =
                           [keyword_count    |-> Len(found_keywords),
                            found_keywords   |-> Take(found_keywords, 20),
                            missing_keywords |->
                                Take(missing_keywords, 10)] @@ @,
                       !.scores  = [keywords |-> keyword_score] @@ @],
                   ret  |-> [keyword_score    |-> keyword_score,
                             present_keywords |-> Take(found_keywords, 15),
                             missing_keywords |-> Take(missing_keywords, 8)]],
              BoostedKeywordScore(jd, found_keywords, missing_keywords)),
        MissingKeywords(t, jd, self,
                        Len(SelectSeq(found_keywords,
                                      LAMBDA k : InTechTable(self, k))))),
      FoundKeywords(t, jd, self))

_analyze_achievements(t, self) ==
    LET quantified_count == t.quant
        score == IF quantified_count >= 10 THEN 95
                 ELSE IF quantified_count >= 7 THEN 85
                 ELSE IF quantified_count >= 5 THEN 75
                 ELSE IF quantified_count >= 3 THEN 65
                 ELSE IF quantified_count >= 2 THEN 55
                 ELSE IF quantified_count >= 1 THEN 45
                 ELSE 25
    IN  [self |-> [self EXCEPT
                   !.metrics = [quantified_achievements |-> quantified_count] @@ @,
                   !.scores  = [achievements |-> score] @@ @],
         ret  |-> score]

\* _analyze_action_verbs taking the verbs it finds out of the list of the
\* class
_analyze_action_verbs_consuming(t, self) ==
    LET Found(tier) == SelectSeq(self.ACTION_VERBS[tier],
                               LAMBDA v : v \in t.verbs)
        high_impact   == Found("high_impact")
        medium_impact == Found("medium_impact")
        standard      == Found("standard")
        total_verbs   == Len(high_impact) + Len(medium_impact) + Len(standard)
        base  == Min(100, Len(high_impact) * 8 + Len(medium_impact) * 4
                          + Len(standard) * 2)
        score == IF total_verbs >= 10 /\ Len(high_impact) >= 3
                 THEN Min(100, base + 15) ELSE base
    IN  [self |-> [self EXCEPT
                   !.ACTION_VERBS.high_impact =
                       SelectSeq(@, LAMBDA v : v \notin t.verbs),
                   !.metrics = [high_impact_verbs   |-> high_impact,
                                medium_impact_verbs |-> medium_impact,
                                standard_verbs      |-> standard] @@ @,
                   !.scores  = [verbs |-> score] @@ @],
         ret  |-> score]

_analyze_action_verbs(t, self) ==
    LET Found(tier) == SelectSeq(self.ACTION_VERBS[tier],
                               LAMBDA v : v \in t.verbs)
        high_impact   == Found("high_impact")
        medium_impact == Found("medium_impact")
        standard      == Found("standard")
        total_verbs   == Len(high_impact) + Len(medium_impact) + Len(standard)
        base  == Min(100, Len(high_impact) * 8 + Len(medium_impact) * 4
                          + Len(standard) * 2)
        score == IF total_verbs >= 10 /\ Len(high_impact) >= 3
                 THEN Min(100, base + 15) ELSE base
    IN  [self |-> [self EXCEPT
                   !.metrics = [high_impact_verbs   |-> high_impact,
                                medium_impact_verbs |-> medium_impact,
                                standard_verbs      |-> standard] @@ @,
                   !.scores  = [verbs |-> score] @@ @],
         ret  |-> score]

_analyze_formatting(t, self) ==
    LET total_bullets == t.bullets
        word_count    == Get(self.metrics, "word_count", 0)
        optimal       == 400 <= word_count /\ word_count <= 800
        table         == t.pipes > 10
        score == 70
                 + (IF total_bullets >= 15 THEN 15
                    ELSE IF total_bullets >= 10 THEN 10
                    ELSE IF total_bullets >= 5 THEN 5 ELSE 0)
                 + (IF optimal THEN 10
                    ELSE IF 300 <= word_count /\ word_count <= 1000 THEN 5
                    ELSE -5)
                 - (IF table THEN 10 ELSE 0)
                 + (IF t.dates >= 4 THEN 5 ELSE 0)
    IN  [self |-> [self EXCEPT
                   !.metrics = [bullet_points    |-> total_bullets,
                                optimal_length   |-> optimal,
                                possible_table   |-> table,
                                consistent_dates |-> IF t.dates >= 4 THEN TRUE
                                                     ELSE t.dates >= 2] @@ @,
                   !.scores  = [formatting |-> Max(0, Min(100, score))] @@ @],
         ret  |-> Max(0, Min(100, score))]

_analyze_content_depth(t, self) ==
    LET experience_section ==
            \E w \in {"experience", "work history", "employment"} :
                Contains(t, w)
        exp_word_count == t.expWords
        progression_found ==
            Cardinality({term \in {"senior", "lead", "manager", "director",
                                   "principal", "architect", "head", "chief",
                                   "vp", "promoted", "advanced"} :
                            Contains(t, term)})
        technical_depth == Len(Get(self.metrics, "found_keywords", <<>>))
        score == 50
                 + (IF experience_section /\ exp_word_count >= 200 THEN 20
                    ELSE IF experience_section /\ exp_word_count >= 100 THEN 10
                    ELSE 0)
                 + (IF progression_found >= 2 THEN 15
                    ELSE IF progression_found >= 1 THEN 8 ELSE 0)
                 + (IF technical_depth >= 15 THEN 15
                    ELSE IF technical_depth >= 10 THEN 10
                    ELSE IF technical_depth >= 5 THEN 5 ELSE 0)
    IN  [self |-> [self EXCEPT
                   !.metrics = [career_progression |-> progression_found] @@ @,
                   !.scores  = [content |-> Max(0, Min(100, score))] @@ @],
         ret  |-> Max(0, Min(100, score))]

_check_ats_compatibility(t, self) ==
    LET problem_count == t.problem
        score == 80
                 - (IF problem_count > 5 THEN 15
                    ELSE IF problem_count > 0 THEN 5 ELSE 0)
                 - (IF t.nonAscii THEN 10 ELSE 0)
                 + (IF Get(self.metrics, "clear_headers", FALSE) THEN 10 ELSE 0)
                 + (IF Get(self.metrics, "bullet_points", 0) >= 5 THEN 10 ELSE 0)
    IN  [self |-> [self EXCEPT
                   !.metrics = [problematic_chars |-> problem_count] @@ @,
                   !.scores  = [ats_compat |-> Max(0, Min(100, score))] @@ @],
         ret  |-> Max(0, Min(100, score))]

CommonWords == {"with", "that", "this", "have", "from", "they", "will", "your",
                "about", "been", "more", "when", "there", "which", "their",
                "would", "could", "should", "other"}

_analyze_jd_match(t, jd, self) ==
    LET jd_words     == {jd.words[i] : i \in {j \in DOMAIN jd.words :
                                                 Len(jd.words[j]) >= 4}}
                        \ CommonWords
        resume_words == UNION {LongWords(tok) : tok \in Written(t)} \ CommonWords
        matches      == jd_words \cap resume_words
    IN  IF ~jd.given \/ jd_words = {}
        THEN [self |-> self, ret |-> 70]
        ELSE Apply(LAMBDA match_percentage :
                 Apply(LAMBDA score :
                           [self |-> [self EXCEPT
                                !.metrics = [jd_match_percentage |->
                                                 FRound1(match_percentage)]
                                            @@ @,
                                !.scores  = [jd_match |-> score] @@ @],
                            ret  |-> score],
                       Min(100, FTrunc(FMul(match_percentage,
                                            FDivInt(12, 10))))),
                 FMul(FFromInt(100), FDivInt(Cardinality(matches),
                                      Cardinality(jd_words))))

\* the weights analyze passes to _calculate_final_score (float literals), in
\* the order contact, structure, keywords, achievements, verbs, formatting,
\* content, ats_compat, jd_match
ScoreWeights ==
    LET hundredths == <<8, 12, 20, 18, 8, 12, 12, 5, 5>>
    IN  [i \in DOMAIN hundredths |-> FDivInt(hundredths[i], 100)]

\* total and total_weight after the first i entries of weighted_scores
RECURSIVE WeightedTotals(_, _)
WeightedTotals(weighted_scores, i) ==
    IF i = 0 THEN [total        |-> [n |-> <<>>, e |-> 0],
                    total_weight |-> [n |-> <<>>, e |-> 0]]
    ELSE Apply(LAMBDA before :
                   [total        |->
                        Apply(LAMBDA product : FAdd(before.total, product),
                              FMul(FFromInt(weighted_scores[i][1]),
                                   weighted_scores[i][2])),
                    total_weight |->
                        FAdd(before.total_weight, weighted_scores[i][2])],
               WeightedTotals(weighted_scores, i - 1))

\* int(total / total_weight) if total_weight > 0 else 50
WeightedScore(weighted_scores) ==
    Apply(LAMBDA sums : IF sums.total_weight.n # <<>>
                        THEN FTrunc(FDiv(sums.total, sums.total_weight))
                        ELSE 50,
          WeightedTotals(weighted_scores, Len(weighted_scores)))

\* Ceilings without the ceiling for a missing email address
CeilingsButEmail(final, self) ==
    LET c2 == IF Get(self.metrics, "quantified_achievements", 0) = 0
              THEN Min(final, 70) ELSE final
        c3 == IF Len(Get(self.metrics, "found_sections", <<>>)) < 3
              THEN Min(c2, 65) ELSE c2
    IN  c3

\* the ceilings for missing critical elements
Ceilings(final, self) ==
    LET c1 == IF ~Get(self.metrics, "has_email", FALSE)
              THEN Min(final, 80) ELSE final
        c2 == IF Get(self.metrics, "quantified_achievements", 0) = 0
              THEN Min(c1, 70) ELSE c1
        c3 == IF Len(Get(self.metrics, "found_sections", <<>>)) < 3
              THEN Min(c2, 65) ELSE c2
    IN  c3

_calculate_final_score(weighted_scores, self) ==
    Max(0, Min(100, Ceilings(WeightedScore(weighted_scores), self)))

default_strengths ==
    <<"Resume successfully parsed without critical ATS errors",
      "Contact information properly formatted for ATS extraction",
      "Professional language and tone throughout document">>

\* one pass of the for loop over default_strengths
RECURSIVE PadFor(_, _)
PadFor(strengths, i) ==
    IF i > Len(default_strengths) THEN strengths
    ELSE PadFor(IF ~InSeq(default_strengths[i], strengths) /\ Len(strengths) < 4
                THEN Append(strengths, default_strengths[i])
                ELSE strengths, i + 1)

\* while len(strengths) < 4: a pass that changes nothing is repeated forever
RECURSIVE PadWhile(_)
PadWhile(strengths) ==
    IF Len(strengths) >= 4 THEN [hang |-> FALSE, list |-> strengths]
    ELSE IF PadFor(strengths, 1) = strengths
         THEN [hang |-> TRUE, list |-> strengths]
         ELSE PadWhile(PadFor(strengths, 1))

\* [x] if cond else []
When(cond, x) == IF cond THEN <<x>> ELSE <<>>

_generate_strengths(self) ==
    LET m  == self.metrics
        qa == Get(m, "quantified_achievements", 0)
        kc == Get(m, "keyword_count", 0)
        fs == Len(Get(m, "found_sections", <<>>))
        wc == Get(m, "word_count", 0)
        strengths ==
            (IF qa >= 5
             THEN <<"Strong use of quantified achievements ("
                    \o ToString(m["quantified_achievements"])
                    \o " measurable results identified)">>
             ELSE When(qa >= 2, "Includes quantified achievements demonstrating measurable impact"))
            \o When(Len(Get(m, "high_impact_verbs", <<>>)) >= 3,
                    "Excellent use of high-impact action verbs that convey leadership and results")
            \o (IF kc >= 15
                THEN <<"Rich keyword content with " \o ToString(m["keyword_count"])
                       \o "+ relevant professional terms">>
                ELSE When(kc >= 10, "Good industry-relevant keyword coverage"))
            \o When(Get(self.scores, "formatting", 0) >= 80,
                    "Clean, ATS-optimized formatting with effective use of bullet points")
            \o (IF Get(m, "has_linkedin", FALSE)
                   /\ Get(m, "has_professional_link", FALSE)
                THEN <<"Professional online presence with LinkedIn and portfolio links">>
                ELSE When(Get(m, "has_linkedin", FALSE),
                          "Includes LinkedIn profile for professional networking"))
            \o (IF fs >= 5
                THEN <<"Comprehensive resume structure with all essential and recommended sections">>
                ELSE When(fs >= 4, "Well-organized resume with clear section structure"))
            \o When(Get(m, "career_progression", 0) >= 2,
                    "Demonstrates clear career progression and professional growth")
            \o When(400 <= wc /\ wc <= 700,
                    "Optimal resume length for ATS parsing and recruiter review")
        padded == PadWhile(strengths)
    IN  [hang |-> padded.hang, ret |-> Take(padded.list, 6)]

\* ', '.join(items)
RECURSIVE Join(_)
Join(items) == IF items = <<>> THEN ""
               ELSE IF Len(items) = 1 THEN items[1]
               ELSE items[1] \o ", " \o Join(Tail(items))

_generate_improvements(jd, self) ==
    LET m  == self.metrics
        wc == Get(m, "word_count", 0)
        missing_sections ==
            SelectSeq(self.ESSENTIAL_SECTIONS
                      \o Take(self.RECOMMENDED_SECTIONS, 2),
                      LAMBDA s : ~InSeq(s, Get(m, "found_sections", <<>>)))
        improvements ==
            When(Get(m, "quantified_achievements", 0) < 3,
                 "Add more quantified achievements with specific metrics (percentages, dollar amounts, user counts)")
            \o When(Get(m, "keyword_count", 0) < 10,
                    "Incorporate more industry-relevant keywords and technical terminology")
            \o When(~Get(m, "has_linkedin", FALSE),
                    "Add LinkedIn profile URL to strengthen professional presence")
            \o When(Len(Get(m, "high_impact_verbs", <<>>)) < 3,
                    "Replace passive language with high-impact action verbs (achieved, delivered, transformed)")
            \o (IF Get(m, "optimal_length", FALSE) THEN <<>>
                ELSE IF wc < 400
                THEN <<"Expand content with more detail about achievements and responsibilities (aim for 400-700 words)">>
                ELSE When(wc > 800,
                          "Consider condensing content to 1-2 pages for optimal recruiter attention"))
            \o When(Get(m, "bullet_points", 0) < 10,
                    "Use more bullet points to improve readability and ATS parsing")
            \o When(missing_sections # <<>>,
                    "Consider adding missing sections: "
                    \o Join(Take(missing_sections, 3)))
            \o When(Get(self.scores, "jd_match", 100) < 60 /\ jd.given,
                    "Tailor resume content to better match the specific job requirements")
    IN  Take(improvements, 6)

\* _generate_recommendations without the cut to 7 entries
_generate_recommendations_uncut(self) ==
    LET m  == self.metrics
        kc == Get(m, "keyword_count", 0)
        recommendations ==
            <<"Quantify your impact: Transform statements like 'improved sales' into 'increased sales by 25% ($2M revenue)' - you currently have "
              \o ToString(Get(m, "quantified_achievements", 0))
              \o " quantified achievements",
              "Use the STAR method (Situation, Task, Action, Result) for each experience bullet point",
              "Mirror key terms from job descriptions - ATS systems scan for exact keyword matches",
              "Place most relevant skills and keywords in the top third of your resume for visibility",
              "Update your LinkedIn profile to match your resume for consistency across platforms">>
        r1 == IF kc < 15
              THEN <<"Increase keyword density: Add " \o ToString(15 - kc)
                     \o " more relevant technical/industry terms throughout your resume">>
                   \o recommendations
              ELSE recommendations
        r2 == r1 \o When(~Get(m, "has_professional_link", FALSE),
                         "Add a GitHub or portfolio link to showcase your work samples")
        r3 == IF Get(self.scores, "achievements", 0) < 60
              THEN Take(r2, 1)
                   \o <<"Focus on outcomes over duties: Replace 'Responsible for...' with 'Achieved/Delivered...'">>
                   \o Drop(r2, 1)
              ELSE r2
    IN  r3

_generate_recommendations(self) ==
    LET m  == self.metrics
        kc == Get(m, "keyword_count", 0)
        recommendations ==
            <<"Quantify your impact: Transform statements like 'improved sales' into 'increased sales by 25% ($2M revenue)' - you currently have "
              \o ToString(Get(m, "quantified_achievements", 0))
              \o " quantified achievements",
              "Use the STAR method (Situation, Task, Action, Result) for each experience bullet point",
              "Mirror key terms from job descriptions - ATS systems scan for exact keyword matches",
              "Place most relevant skills and keywords in the top third of your resume for visibility",
              "Update your LinkedIn profile to match your resume for consistency across platforms">>
        r1 == IF kc < 15
              THEN <<"Increase keyword density: Add " \o ToString(15 - kc)
                     \o " more relevant technical/industry terms throughout your resume">>
                   \o recommendations
              ELSE recommendations
        r2 == r1 \o When(~Get(m, "has_professional_link", FALSE),
                         "Add a GitHub or portfolio link to showcase your work samples")
        r3 == IF Get(self.scores, "achievements", 0) < 60
              THEN Take(r2, 1)
                   \o <<"Focus on outcomes over duties: Replace 'Responsible for...' with 'Achieved/Delivered...'">>
                   \o Drop(r2, 1)
              ELSE r2
    IN  Take(r3, 7)

\* the k-th analysis of analyze
Analysis(k, t, jd, self) ==
    CASE k = 1  -> _analyze_document_metrics(t, self)
      [] k = 2  -> _analyze_contact_info(t, self)
      [] k = 3  -> _analyze_structure(t, self)
      [] k = 4  -> _analyze_keywords(t, jd, self)
      [] k = 5  -> _analyze_achievements(t, self)
      [] k = 6  -> _analyze_action_verbs(t, self)
      [] k = 7  -> _analyze_formatting(t, self)
      [] k = 8  -> _analyze_content_depth(t, self)
      [] k = 9  -> _check_ats_compatibility(t, self)
      [] k = 10 -> IF jd.given THEN _analyze_jd_match(t, jd, self)
                   ELSE [self |-> self, ret |-> 70]

\* analyses 1 to k of analyze, in order: the analyzer afterwards, and what
\* each returned
RECURSIVE Analyses(_, _, _, _)
Analyses(k, t, jd, cls) ==
    IF k = 0 THEN [self |-> __init__(cls), returned |-> <<>>]
    ELSE Apply(LAMBDA before :
                   Apply(LAMBDA step :
                             [self     |-> step.self,
                              returned |-> Append(before.returned, step.ret)],
                         Analysis(k, t, jd, before.self)),
               Analyses(k - 1, t, jd, cls))

\* the dict analyze hands to _calculate_final_score, in insertion order
Weighted(scores) ==
    [i \in DOMAIN ScoreWeights |-> <<scores[i], ScoreWeights[i]>>]

\* DeterministicATSAnalyzer(resume_text, job_description).analyze(), run while
\* the class attributes are cls: the dict returned, or hang when the padding
\* loop of _generate_strengths does not end, and the class attributes
\* afterwards
analyze(t, jd, cls) ==
    LET Rest(a) ==
            LET self == a.self
                keyword_analysis == a.returned[4]
                final_score ==
                    _calculate_final_score(
                        Weighted(<<a.returned[2], a.returned[3],
                                   keyword_analysis.keyword_score,
                                   a.returned[5], a.returned[6],
                                   a.returned[7], a.returned[8],
                                   a.returned[9], a.returned[10]>>), self)
                strengths == _generate_strengths(self)
            IN  IF strengths.hang
                THEN [hang |-> TRUE, cls |-> ClassOf(self)]
                ELSE [hang   |-> FALSE,
                      cls    |-> ClassOf(self),
                      result |->
                          [ats_score             |-> final_score,
                           keyword_analysis      |-> keyword_analysis,
                           formatting_score      |-> a.returned[7],
                           content_quality_score |-> a.returned[8],
                           impact_score          |-> a.returned[5],
                           strengths             |-> strengths.ret,
                           areas_for_improvement |->
                               _generate_improvements(jd, self),
                           recommendations       |->
                               _generate_recommendations(self),
                           detailed_metrics      |-> self.metrics]]
    IN  Apply(Rest, Analyses(10, t, jd, cls))

---------------------------------------------------------------------------
\* Inputs: resume texts (as scanned by the patterns of the analyzer), job
\* descriptions

\* " \n ": white space only
BlankText ==
    [tokens   |-> {},
     verbs    |-> {},
     email    |-> FALSE, phone |-> FALSE, locPat |-> FALSE,
     headers  |-> 0, years |-> <<>>, quant |-> 0, bullets |-> 0,
     pipes    |-> 0, dates |-> 0, problem |-> 0, nonAscii |-> FALSE,
     expWords |-> 0, words |-> 0, sentences |-> 0,
     paragraphs |-> 0, lines |-> 0, chars |-> 3, stripped |-> 0,
     prefix   |-> ""]

\* "Sales up 10%, 20%, 30%."
TinyText ==
    [tokens   |-> {},
     verbs    |-> {},
     email    |-> FALSE, phone |-> FALSE, locPat |-> FALSE,
     headers  |-> 0, years |-> <<>>, quant |-> 3, bullets |-> 0,
     pipes    |-> 0, dates |-> 0, problem |-> 0, nonAscii |-> FALSE,
     expWords |-> 0, words |-> 5, sentences |-> 1,
     paragraphs |-> 1, lines |-> 1, chars |-> 23, stripped |-> 23,
     prefix   |-> ""]

\* "hello world this is a resume text without anything interesting in it at
\* all ok"
PlainText ==
    [tokens   |-> {"r", "with"},
     verbs    |-> {},
     email    |-> FALSE, phone |-> FALSE, locPat |-> FALSE,
     headers  |-> 0, years |-> <<>>, quant |-> 0, bullets |-> 0,
     pipes    |-> 0, dates |-> 0, problem |-> 0, nonAscii |-> FALSE,
     expWords |-> 0, words |-> 15, sentences |-> 1,
     paragraphs |-> 1, lines |-> 1, chars |-> 78, stripped |-> 78,
     prefix   |-> ""]

\* a short resume: mail address, phone number, one header, three sections
JuniorResume ==
    [tokens   |-> {"education", "experience", "git", "python", "skills",
                   "sql"},
     verbs    |-> {"assisted", "developed", "supported"},
     email    |-> TRUE, phone |-> TRUE, locPat |-> FALSE,
     headers  |-> 1, years |-> <<20>>, quant |-> 2, bullets |-> 5,
     pipes    |-> 0, dates |-> 1, problem |-> 0, nonAscii |-> FALSE,
     expWords |-> 51, words |-> 279, sentences |-> 2,
     paragraphs |-> 1, lines |-> 23, chars |-> 913, stripped |-> 912,
     prefix   |-> ""]

\* a full resume: every section, ten quantified results, twelve action verbs
SeniorResume ==
    [tokens   |-> {"achievement", "agile", "aws", "certification", "contact",
                   "django", "docker", "education", "experience", "git",
                   "github", "java", "jenkins", "kpi", "kubernetes",
                   "leadership", "linkedin", "machine learning", "manager",
                   "postgresql", "project management", "projects", "python",
                   "react", "scrum", "senior", "skills", "sql", "summary"},
     verbs    |-> {"achieved", "analyzed", "delivered", "designed",
                   "developed", "implemented", "improved", "increased",
                   "launched", "led", "managed", "optimized"},
     email    |-> TRUE, phone |-> TRUE, locPat |-> TRUE,
     headers  |-> 4, years |-> <<20, 20>>, quant |-> 10, bullets |-> 10,
     pipes    |-> 0, dates |-> 4, problem |-> 0, nonAscii |-> FALSE,
     expWords |-> 211, words |-> 606, sentences |-> 2,
     paragraphs |-> 1, lines |-> 78, chars |-> 2133, stripped |-> 2132,
     prefix   |-> ""]

\* texts that differ from a resume above in one respect, each the scan of a
\* text that exists
Variations ==
    {
    \* quant 0
     [SeniorResume EXCEPT !.quant = 0, !.words = 596, !.lines = 68,
          !.chars = 2093, !.stripped = 2092],
    \* quant 1
     [SeniorResume EXCEPT !.quant = 1, !.words = 597, !.lines = 69,
          !.chars = 2097, !.stripped = 2096],
    \* quant 2
     [SeniorResume EXCEPT !.quant = 2, !.words = 598, !.lines = 70,
          !.chars = 2101, !.stripped = 2100],
    \* quant 3
     [SeniorResume EXCEPT !.quant = 3, !.words = 599, !.lines = 71,
          !.chars = 2105, !.stripped = 2104],
    \* quant 5
     [SeniorResume EXCEPT !.quant = 5, !.words = 601, !.lines = 73,
          !.chars = 2113, !.stripped = 2112],
    \* no mail address
     [SeniorResume EXCEPT !.email = FALSE, !.words = 605, !.sentences = 1,
          !.chars = 2126, !.stripped = 2125],
    \* two sections
     [SeniorResume EXCEPT !.tokens = {"agile", "aws", "contact", "django",
          "docker", "experience", "git", "github", "java", "jenkins", "kpi",
          "kubernetes", "leadership", "linkedin", "machine learning",
          "manager", "postgresql", "project management", "python", "react",
          "scrum", "senior", "sql"}, !.words = 600, !.lines = 72,
          !.chars = 2067, !.stripped = 2066],
    \* no section
     [SeniorResume EXCEPT !.tokens = {"agile", "aws", "django", "docker",
          "git", "github", "java", "jenkins", "kpi", "kubernetes",
          "leadership", "linkedin", "machine learning", "manager",
          "postgresql", "project management", "python", "react", "scrum",
          "senior", "sql"}, !.expWords = 0, !.words = 598, !.lines = 71,
          !.chars = 2046, !.stripped = 2045],
    \* no mail address, no quantity, two sections
     [SeniorResume EXCEPT !.tokens = {"agile", "aws", "contact", "django",
          "docker", "experience", "git", "github", "java", "jenkins", "kpi",
          "kubernetes", "leadership", "linkedin", "machine learning",
          "manager", "postgresql", "project management", "python", "react",
          "scrum", "senior", "sql"}, !.email = FALSE, !.quant = 0,
          !.words = 589, !.sentences = 1, !.lines = 62, !.chars = 2020,
          !.stripped = 2019],
    \* no action verb
     [SeniorResume EXCEPT !.verbs = {}, !.words = 594, !.lines = 66,
          !.chars = 2012, !.stripped = 2011],
    \* every action verb
     [SeniorResume EXCEPT !.verbs = {"accelerated", "achieved", "analyzed",
          "assisted", "built", "collaborated", "conducted", "contributed",
          "coordinated", "created", "delivered", "designed", "developed",
          "established", "exceeded", "executed", "facilitated", "generated",
          "handled", "implemented", "improved", "increased", "launched",
          "led", "maintained", "managed", "optimized", "organized",
          "participated", "performed", "pioneered", "prepared", "processed",
          "produced", "provided", "reduced", "saved", "spearheaded",
          "streamlined", "supported", "transformed"}, !.words = 635,
          !.lines = 107, !.chars = 2455, !.stripped = 2454],
    \* no bullet
     [SeniorResume EXCEPT !.bullets = 0, !.words = 586, !.lines = 68,
          !.chars = 2083, !.stripped = 2082],
    \* sixteen bullets
     [SeniorResume EXCEPT !.bullets = 16, !.words = 618, !.lines = 84,
          !.chars = 2163, !.stripped = 2162],
    \* a table
     [SeniorResume EXCEPT !.pipes = 11, !.words = 607, !.lines = 79,
          !.chars = 2145, !.stripped = 2144],
    \* six symbols
     [SeniorResume EXCEPT !.problem = 6, !.words = 612, !.lines = 79,
          !.chars = 2145, !.stripped = 2144],
    \* a run of accented letters
     [SeniorResume EXCEPT !.nonAscii = TRUE, !.words = 607, !.lines = 79,
          !.chars = 2146, !.stripped = 2145],
    \* no header
     [SeniorResume EXCEPT !.headers = 0, !.words = 598, !.lines = 70,
          !.chars = 2101, !.stripped = 2100],
    \* no filler
     [SeniorResume EXCEPT !.words = 306, !.paragraphs = 2, !.lines = 77,
          !.chars = 1233, !.stripped = 1232],
    \* long
     [SeniorResume EXCEPT !.words = 1006, !.chars = 3333, !.stripped = 3332],
    \* very long
     [SeniorResume EXCEPT !.words = 1406, !.chars = 4533, !.stripped = 4532],
    \* short experience section
     [SeniorResume EXCEPT !.expWords = 1, !.words = 396, !.chars = 1503,
          !.stripped = 1502],
    \* no linkedin, no github
     [SeniorResume EXCEPT !.tokens = {"achievement", "agile", "aws",
          "certification", "contact", "django", "docker", "education",
          "experience", "git", "java", "jenkins", "kpi", "kubernetes",
          "leadership", "machine learning", "manager", "postgresql",
          "project management", "projects", "python", "react", "scrum",
          "senior", "skills", "sql", "summary"}, !.words = 604, !.lines = 76,
          !.chars = 2115, !.stripped = 2114],
    \* no keyword
     [SeniorResume EXCEPT !.tokens = {"contact", "education", "experience",
          "skills", "summary"}, !.words = 580, !.lines = 54, !.chars = 1906,
          !.stripped = 1905],
    \* no date
     [SeniorResume EXCEPT !.years = <<>>, !.dates = 0, !.words = 596,
          !.lines = 72, !.chars = 2081, !.stripped = 2080],
    \* descending years
     [SeniorResume EXCEPT !.years = <<20, 19, 20, 19>>, !.words = 608,
          !.lines = 80, !.chars = 2145, !.stripped = 2144],
    \* twelve quantities, sixteen bullets
     [SeniorResume EXCEPT !.quant = 12, !.bullets = 16, !.words = 700,
          !.lines = 86, !.chars = 2411, !.stripped = 2410],
    \* quant 0
     [JuniorResume EXCEPT !.quant = 0, !.words = 277, !.lines = 21,
          !.chars = 905, !.stripped = 904],
    \* quant 3
     [JuniorResume EXCEPT !.quant = 3, !.words = 280, !.lines = 24,
          !.chars = 917, !.stripped = 916],
    \* quant 5
     [JuniorResume EXCEPT !.quant = 5, !.words = 282, !.lines = 26,
          !.chars = 925, !.stripped = 924],
    \* no mail address
     [JuniorResume EXCEPT !.email = FALSE, !.words = 277, !.sentences = 1,
          !.lines = 22, !.chars = 903, !.stripped = 902],
    \* no phone number
     [JuniorResume EXCEPT !.phone = FALSE, !.years = <<>>, !.dates = 0,
          !.words = 275, !.lines = 20, !.chars = 883, !.stripped = 882],
    \* no section
     [JuniorResume EXCEPT !.tokens = {"git", "python", "sql"},
          !.expWords = 0, !.words = 276, !.lines = 21, !.chars = 882,
          !.stripped = 881],
    \* no action verb
     [JuniorResume EXCEPT !.verbs = {}, !.words = 276, !.lines = 20,
          !.chars = 881, !.stripped = 880],
    \* four strong verbs
     [JuniorResume EXCEPT !.verbs = {"achieved", "delivered", "launched",
          "led"}, !.words = 280, !.lines = 24, !.chars = 917,
          !.stripped = 916],
    \* ten bullets
     [JuniorResume EXCEPT !.bullets = 10, !.words = 289, !.lines = 28,
          !.chars = 938, !.stripped = 937],
    \* linkedin
     [JuniorResume EXCEPT !.tokens = {"education", "experience", "git",
          "linkedin", "python", "skills", "sql"}, !.words = 280,
          !.lines = 24, !.chars = 923, !.stripped = 922],
    \* long
     [JuniorResume EXCEPT !.words = 529, !.chars = 1663, !.stripped = 1662],
    \* no filler
     [JuniorResume EXCEPT !.expWords = 1, !.words = 29, !.paragraphs = 2,
          !.lines = 22, !.chars = 163, !.stripped = 162],
    \* four headers
     [JuniorResume EXCEPT !.headers = 4, !.words = 285, !.lines = 29,
          !.chars = 937, !.stripped = 936],
    \* nothing but sections
     [JuniorResume EXCEPT !.verbs = {}, !.email = FALSE, !.phone = FALSE,
          !.headers = 0, !.years = <<>>, !.quant = 0, !.bullets = 0,
          !.dates = 0, !.words = 256, !.sentences = 1, !.lines = 7,
          !.chars = 800, !.stripped = 799]}

Texts == {BlankText, TinyText, PlainText, JuniorResume, SeniorResume}
         \cup Variations

\* job_description: the empty default, a job advertisement, a line of symbols
NoJD == [given |-> FALSE, words |-> <<>>]
BackendJD ==
    [given |-> TRUE,
     words |-> <<"python", "kubernetes", "docker", "aws", "sql", "leadership",
                 "agile", "team", "engineer", "payments", "fintech">>]
SymbolJD == [given |-> TRUE, words |-> <<>>]
\* an advertisement that names six skills
PlatformJD ==
    [given |-> TRUE,
     words |-> <<"python", "kubernetes", "docker", "aws", "sql", "agile">>]

JobDescriptions == {NoJD, BackendJD, SymbolJD, PlatformJD}

---------------------------------------------------------------------------
\* main.py: merging the reply of the remote service into the result

\* Python's None
None == [None |-> TRUE]

\* bool(d) of an Optional[Dict]: None and the empty dict are false
Truthy(d) == DOMAIN d # {} /\ d # None

\* MergedScore without the clamp of the adjusted score
MergedScoreUnclamped(ats_score, ai_insights) ==
    LET score_adjustment ==
            Max(-10, Min(10, Get(ai_insights, "ai_score_adjustment", 0)))
    IN  ats_score + score_adjustment

\* MergedScore without the clamp of the adjustment
MergedScoreWide(ats_score, ai_insights) ==
    LET score_adjustment == Get(ai_insights, "ai_score_adjustment", 0)
    IN  Max(0, Min(100, ats_score + score_adjustment))

\* the adjustment is clamped to -10..10, the adjusted score to 0..100
MergedScore(ats_score, ai_insights) ==
    LET score_adjustment ==
            Max(-10, Min(10, Get(ai_insights, "ai_score_adjustment", 0)))
    IN  Max(0, Min(100, ats_score + score_adjustment))

\* ai[:lead] + [s for s in items if s not in ai], cut to cap entries
Combined(ai, items, lead, cap) ==
    Take(Take(ai, lead) \o SelectSeq(items, LAMBDA s : ~InSeq(s, ai)), cap)

generate_feedback(score) ==
    IF score >= 90
    THEN "Exceptional resume with a score of " \o ToString(score)
         \o "/100! Your resume demonstrates outstanding ATS optimization with strong quantified achievements, excellent keyword coverage, and professional formatting. You're well-positioned for top-tier opportunities."
    ELSE IF score >= 80
    THEN "Excellent resume scoring " \o ToString(score)
         \o "/100. Your resume shows strong ATS compatibility with good keyword usage and clear structure. Minor optimizations could push you into the exceptional range."
    ELSE IF score >= 70
    THEN "Very good resume with a score of " \o ToString(score)
         \o "/100. You have a solid foundation with room for improvement. Focus on adding more quantified achievements and industry-specific keywords."
    ELSE IF score >= 60
    THEN "Good resume scoring " \o ToString(score)
         \o "/100. Your resume has potential but needs optimization. Prioritize adding measurable results and tailoring content to specific job descriptions."
    ELSE IF score >= 50
    THEN "Fair resume with a score of " \o ToString(score)
         \o "/100. There's significant room for improvement. Focus on quantifying achievements, adding relevant keywords, and improving document structure."
    ELSE IF score >= 40
    THEN "Your resume scores " \o ToString(score)
         \o "/100 and needs substantial work. Review the recommendations below and prioritize adding quantified achievements and industry keywords."
    ELSE "Your resume scores " \o ToString(score)
         \o "/100 and requires significant revision. Focus on adding essential sections, quantified achievements, and proper formatting for ATS compatibility."

\* merge_analysis_results(deterministic, ai_insights): the dict returned, and
\* the dict deterministic afterwards (result is a shallow copy, so the nested
\* keyword_analysis is one object in both).  A decoded object names under
\* ill_typed the keys whose values are not of the type the code handles: on
\* such a value min, the slice or the concatenation raises TypeError.
merge_analysis_results(deterministic, ai_insights) ==
    IF Truthy(ai_insights) /\ Get(ai_insights, "ill_typed", {}) # {}
    THEN [raised |-> TRUE, exc |-> "TypeError", ret |-> None,
          deterministic |-> deterministic]
    ELSE
    LET ats_score == MergedScore(deterministic.ats_score, ai_insights)
        ai_keywords == Get(ai_insights, "ai_keyword_suggestions", <<>>)
        keyword_analysis ==
            IF ai_keywords # <<>>
            THEN [missing_keywords |->
                      Combined(ai_keywords,
                               Get(deterministic.keyword_analysis,
                                   "missing_keywords", <<>>), 3, 8)]
                 @@ deterministic.keyword_analysis
            ELSE deterministic.keyword_analysis
        result ==
            IF Truthy(ai_insights)
            THEN [overall_feedback |->
                      IF Get(ai_insights, "ai_overall_feedback", "") # ""
                      THEN ai_insights["ai_overall_feedback"]
                      ELSE generate_feedback(ats_score)]
                 @@ [deterministic EXCEPT
                       !.ats_score = ats_score,
                       !.strengths =
                           Combined(Get(ai_insights, "ai_strengths", <<>>),
                                    @, 2, 6),
                       !.areas_for_improvement =
                           Combined(Get(ai_insights, "ai_improvements", <<>>),
                                    @, 2, 6),
                       !.keyword_analysis = keyword_analysis,
                       !.recommendations =
                           Combined(Get(ai_insights, "ai_recommendations",
                                        <<>>), @, 2, 7)]
            ELSE [overall_feedback |->
                      generate_feedback(deterministic.ats_score)]
                 @@ deterministic
    IN  [raised        |-> FALSE,
         ret           |-> result,
         deterministic |-> [deterministic EXCEPT !.keyword_analysis =
                                                   result.keyword_analysis]]

---------------------------------------------------------------------------
\* What the remote service can put into the JSON object of its reply

\* the largest magnitude of ai_score_adjustment that is tried
MaxAdj == 12

\* {}
EmptyDict == [k \in {} |-> 0]

FullInsights ==
    [ai_score_adjustment    |-> 5,
     ai_overall_feedback    |-> "A focused resume with clear results.",
     ai_strengths           |-> <<"Clear ownership of production systems",
                                  "Consistent record of delivery",
                                  "Broad tooling knowledge">>,
     ai_improvements        |-> <<"Lead with the most recent role",
                                  "Shorten the summary">>,
     ai_keyword_suggestions |-> <<"terraform", "observability", "golang",
                                  "grpc">>,
     ai_recommendations     |-> <<"Add a link to a public project",
                                  "Name the team sizes",
                                  "State the budget you owned">>]

\* the same sentence twice in a list, and sentences the analyzer produces
\* too, among the first two of a list and after them
RepeatingInsights ==
    [ai_score_adjustment |-> 0,
     ai_overall_feedback |-> "",
     ai_strengths        |-> <<"Strong Python background",
                               "Strong Python background">>,
     ai_improvements     |-> <<"Use more bullet points to improve readability and ATS parsing">>,
     ai_recommendations  |-> <<"Use the STAR method (Situation, Task, Action, Result) for each experience bullet point",
                               "Name the team sizes",
                               "Mirror key terms from job descriptions - ATS systems scan for exact keyword matches">>]

Insights ==
    {[ai_score_adjustment |-> a] : a \in (0 - MaxAdj)..MaxAdj}
    \cup {EmptyDict, FullInsights, RepeatingInsights}

---------------------------------------------------------------------------
\* State

VARIABLES
    variant,            \* the file that is deployed: "app", "index", "main"
    GROQ_API_KEY,       \* the environment variable, "" when it is not set
    GROQ_SDK_AVAILABLE, \* main.py: the groq package could be imported
    groq_client,        \* main.py: the global client, None until it is made
    tables,             \* the class attributes of DeterministicATSAnalyzer
    pc,                 \* where the request, or the call, is
    request,            \* the request being handled
    resume_text,        \* the handler's resume_text: <<>> until it is bound
    response,           \* the response sent
    calls,              \* calls made for this request
    args,               \* the arguments of the call
    ret,                \* what the last call returned
    first,              \* what the first run of analyze returned
    runs                \* the number of runs of analyze

vars == <<variant, GROQ_API_KEY, GROQ_SDK_AVAILABLE, groq_client, tables, pc,
          request, resume_text, response, calls, args, ret, first, runs>>

service == <<variant, GROQ_API_KEY, GROQ_SDK_AVAILABLE, request, resume_text,
             response, calls>>

NoRequest  == [filename |-> <<>>]
NoResponse == [status_code |-> 0]
NoFailure  == [kind |-> "none", message |-> ""]
NoCalls    == [parser |-> 0, scorer |-> 0, remote |-> 0, failure |-> NoFailure,
               decoded |-> <<>>, content |-> <<>>, constructed |-> FALSE]
NoResult   == [ats_score |-> 0 - 1]

\* the client get_groq_client makes from a key; id is the identity of the
\* object
Groq(api_key, id) == [api_key |-> api_key, id |-> id]

---------------------------------------------------------------------------
\* Python values: strings of the request, exceptions, the uploaded bytes

\* a function returned v, or raised exc
Return(v)  == [raised |-> FALSE, ret |-> v]
Raise(exc) == [raised |-> TRUE, exc |-> exc]

HTTPException(status_code, detail) ==
    [type |-> "HTTPException", status_code |-> status_code, detail |-> detail]

\* str.lower() on a string held as a sequence of characters
lower(s) ==
    LET upper == <<"A", "B", "C", "D", "E", "F", "G", "H", "I", "J", "K", "L",
                   "M", "N", "O", "P", "Q", "R", "S", "T", "U", "V", "W", "X",
                   "Y", "Z">>
        small == <<"a", "b", "c", "d", "e", "f", "g", "h", "i", "j", "k", "l",
                   "m", "n", "o", "p", "q", "r", "s", "t", "u", "v", "w", "x",
                   "y", "z">>
    IN  [i \in DOMAIN s |->
            IF \E k \in DOMAIN upper : upper[k] = s[i]
            THEN small[CHOOSE k \in DOMAIN upper : upper[k] = s[i]]
            ELSE s[i]]

\* s.endswith(suffix)
endswith(s, suffix) ==
    /\ Len(s) >= Len(suffix)
    /\ SubSeq(s, Len(s) - Len(suffix) + 1, Len(s)) = suffix

\* s.split('.')[-1]: what follows the last dot, all of s when it has no dot
LastPart(s) ==
    LET dots == {i \in DOMAIN s : s[i] = "."}
    IN  IF dots = {} THEN s
        ELSE SubSeq(s, (CHOOSE i \in dots : \A j \in dots : j <= i) + 1,
                    Len(s))

\* text.strip()
strip(t) == [t EXCEPT !.chars = t.stripped]

\* ""
EmptyText == [BlankText EXCEPT !.chars = 0]

\* SeniorResume without its ten quantified results
UnquantifiedResume ==
    [SeniorResume EXCEPT !.quant = 0, !.words = 596, !.lines = 68,
                         !.chars = 2093, !.stripped = 2092]

\* The uploaded bytes: their number, what they are (a PDF document, a DOCX
\* document, UTF-8 text, or bytes that are none of these) and the text in
\* them.  The PDF and DOCX documents hold compressed streams, so they are not
\* valid UTF-8.
Uploads ==
    {[format |-> "pdf", size |-> 48000 + SeniorResume.chars,
      text |-> SeniorResume],
     [format |-> "pdf", size |-> 310000, text |-> EmptyText],
     [format |-> "pdf", size |-> 10 * 1024 * 1024 + 1, text |-> SeniorResume],
     [format |-> "docx", size |-> 12000 + JuniorResume.chars,
      text |-> JuniorResume],
     [format |-> "text", size |-> TinyText.chars, text |-> TinyText],
     [format |-> "text", size |-> PlainText.chars, text |-> PlainText],
     \* PlainText with "Error" for its first word
     [format |-> "text", size |-> PlainText.chars,
      text |-> [PlainText EXCEPT !.prefix = "Error"]],
     [format |-> "text", size |-> UnquantifiedResume.chars,
      text |-> UnquantifiedResume],
     [format |-> "text", size |-> BlankText.chars, text |-> BlankText],
     [format |-> "text", size |-> 0, text |-> EmptyText],
     [format |-> "bytes", size |-> 3, text |-> EmptyText]}

FileNames ==
    {<<>>,
     <<"c", "v", ".", "p", "d", "f">>,
     <<"c", "v", ".", "d", "o", "c", "x">>,
     <<"c", "v", ".", "t", "x", "t">>,
     <<"C", "V", ".", "T", "X", "T">>,
     <<"p", "d", "f">>,
     <<"c", "v", ".", "e", "x", "e">>}

Requests ==
    [filename : FileNames, upload : Uploads,
     job_description : {NoJD, BackendJD}]

\* the PDF reader (PyPDF2.PdfReader, fitz.open) on the bytes
ReadPDF(upload) ==
    IF upload.format = "pdf" THEN Return(upload.text)
    ELSE Raise("EOF marker not found")

\* the DOCX reader (docx.Document, docx2txt.process) on the bytes
ReadDOCX(upload) ==
    IF upload.format = "docx" THEN Return(upload.text)
    ELSE Raise("File is not a zip file")

\* bytes.decode('utf-8')
decode(upload) ==
    IF upload.format = "text" THEN Return(upload.text)
    ELSE Raise("'utf-8' codec can't decode byte 0xff in position 0: invalid start byte")

\* what went wrong in the parser or the decoder while the request was handled
Failure(kind, message) == [kind |-> kind, message |-> message]

\* what a text extractor hands back: a value or an exception, and the failure
\* of the library underneath
Extracted(r, failure) == r @@ [failure |-> failure]

---------------------------------------------------------------------------
\* The scorer by itself: analyze, _calculate_final_score and
\* merge_analysis_results applied to arguments drawn from the inputs

\* the most runs of analyze on one pair of arguments
MaxRuns == 2

\* the nine sub-scores handed to _calculate_final_score
SubScores ==
    {[i \in 1..9 |-> v] : v \in {0, 50, 100}}
    \cup {<<50, 69, 69, 74, 90, 39, 96, 67, 97>>,
          <<100, 100, 0, 0, 100, 100, 100, 100, 70>>}

InitScorer ==
    /\ variant = "main"
    /\ GROQ_API_KEY = ""
    /\ GROQ_SDK_AVAILABLE = TRUE
    /\ groq_client = None
    /\ tables = DeterministicATSAnalyzer
    /\ pc = "start"
    /\ request = NoRequest
    /\ resume_text = <<>>
    /\ response = NoResponse
    /\ calls = NoCalls
    /\ args \in [resume_text : Texts, job_description : JobDescriptions]
    /\ ret = NoResult
    /\ first = NoResult
    /\ runs = 0

\* DeterministicATSAnalyzer(resume_text, job_description).analyze()
Analyze ==
    /\ pc \in {"start", "analyzed"}
    /\ runs < MaxRuns
    /\ \E r \in {analyze(args.resume_text, args.job_description, tables)} :
           /\ tables' = r.cls
           /\ pc' = IF r.hang THEN "hung" ELSE "analyzed"
           /\ ret' = IF r.hang THEN NoResult ELSE r.result
           /\ first' = IF runs = 0 /\ ~r.hang THEN r.result ELSE first
    /\ runs' = runs + 1
    /\ UNCHANGED <<service, groq_client, args>>

\* between two runs the global client is made, as get_ai_analysis does
MakeClient ==
    /\ pc = "analyzed"
    /\ groq_client = None
    /\ groq_client' = Groq("gsk", 1)
    /\ UNCHANGED <<service, tables, pc, args, ret, first, runs>>

\* _calculate_final_score on sub-scores of any kind, for the metrics of the
\* text; final is its local variable before the ceilings are applied
FinalScore ==
    /\ pc = "start"
    /\ \E a \in {Analyses(10, args.resume_text, args.job_description,
                          tables)} :
           \E scores \in SubScores :
               ret' = [ats_score        |->
                           _calculate_final_score(Weighted(scores), a.self),
                       detailed_metrics |-> a.self.metrics,
                       scores           |-> scores,
                       final            |-> WeightedScore(Weighted(scores))]
    /\ pc' = "scored"
    /\ UNCHANGED <<service, groq_client, tables, args, first, runs>>

\* the ten analyses of analyze, up to the call of _calculate_final_score:
\* what each returned, and the metrics and scores of the analyzer after them
SubAnalyses ==
    /\ pc = "start"
    /\ \E a \in {Analyses(10, args.resume_text, args.job_description,
                          tables)} :
           ret' = [returned |-> a.returned,
                   metrics  |-> a.self.metrics,
                   scores   |-> a.self.scores]
    /\ pc' = "sub-scored"
    /\ UNCHANGED <<service, groq_client, tables, args, first, runs>>

\* analyze, one analysis at a time: done is the number of the analysis that
\* has returned, metrics and scores are those of the analyzer after it
Step ==
    /\ pc \in {"start", "stepping"}
    /\ \E k \in {IF pc = "start" THEN 1 ELSE ret.done + 1} :
         /\ k <= 10
         /\ \E step \in {Analysis(k, args.resume_text, args.job_description,
                                   IF pc = "start" THEN __init__(tables)
                                   ELSE [metrics |-> ret.metrics,
                                         scores  |-> ret.scores] @@ tables)} :
                ret' = [done    |-> k,
                        metrics |-> step.self.metrics,
                        scores  |-> step.self.scores]
    /\ pc' = "stepping"
    /\ UNCHANGED <<service, groq_client, tables, args, first, runs>>

\* _analyze_keywords of a new analyzer on the text (more) and on a text
\* that differs from it only in that one top keyword of the job description
\* is not written in it (less)
Keywords ==
    /\ pc = "start"
    /\ args.job_description.given
    /\ \E i \in DOMAIN top_jd_keywords(args.job_description.words) :
         \E keyword \in {top_jd_keywords(args.job_description.words)[i]} :
           \E less \in {[args.resume_text EXCEPT !.tokens = @ \ {keyword},
                                                 !.verbs = @ \ {keyword}]} :
             /\ Contains(args.resume_text, keyword)
             /\ ~Contains(less, keyword)
             /\ ~\E p \in SubstringsOf : p[1] = keyword
             /\ ret' = [keyword |-> keyword,
                        more    |-> _analyze_keywords(args.resume_text,
                                                      args.job_description,
                                                      __init__(tables)),
                        less    |-> _analyze_keywords(less,
                                                      args.job_description,
                                                      __init__(tables))]
    /\ pc' = "compared"
    /\ UNCHANGED <<service, groq_client, tables, args, first, runs>>

\* merge_analysis_results(deterministic_results, ai_insights): args keeps
\* the two arguments as they were passed, and the dict deterministic_results
\* as it is after the call
Merge ==
    /\ pc = "analyzed"
    /\ \E ai_insights \in Insights \cup {None} :
         \E merged \in {merge_analysis_results(ret, ai_insights)} :
           /\ ret' = merged.ret
           /\ args' = [deterministic       |-> ret,
                       ai_insights         |-> ai_insights,
                       deterministic_after |-> merged.deterministic] @@ args
    /\ pc' = "merged"
    /\ UNCHANGED <<service, groq_client, tables, first, runs>>

NextScorer ==
    Analyze \/ MakeClient \/ FinalScore \/ SubAnalyses \/ Step \/ Keywords
    \/ Merge

SpecScorer == InitScorer /\ [][NextScorer]_vars

---------------------------------------------------------------------------
\* Responses

JSONResponse(status_code, content) ==
    [status_code |-> status_code, body |-> content]

\* FastAPI's answer to an HTTPException raised out of a handler
HTTPError(exc) == JSONResponse(exc.status_code, [detail |-> exc.detail])

\* the answer to any other exception raised out of a handler
InternalServerError(v) ==
    IF v = "app"
    THEN JSONResponse(500, [detail |-> "Internal server error. Please try again later."])
    ELSE JSONResponse(500, "Internal Server Error")

\* what a handler leaves behind
Outcome(resp, text, count, failure, remote) ==
    [response    |-> resp,
     resume_text |-> text,
     calls       |-> [parser  |-> count, scorer |-> 0, remote |-> remote,
                      failure |-> failure, decoded |-> <<>>,
                      content |-> <<>>, constructed |-> FALSE]]

---------------------------------------------------------------------------
\* Replies of the remote service to one chat completion request

\* no reply (message is what the exception of requests says), an error
\* status (message is what raise_for_status says, text the body), or a
\* completion whose content (raw) is "", prose, or a JSON object of objects,
\* alone (around is FALSE) or with a sentence before its '{' and after its
\* '}' (around is TRUE)
Replies(objects) ==
    {[kind |-> "error", message |-> "Read timed out. (read timeout=30)"],
     [kind |-> "status", status_code |-> 429,
      message |-> "429 Client Error: Too Many Requests",
      text |-> "Rate limit reached"]}
    \cup {[kind |-> "ok", content |-> c] :
             c \in {[text |-> "empty", raw |-> ""],
                    [text |-> "prose", raw |-> "A strong resume overall."]}
                   \cup {[text |-> "json", object |-> d, around |-> FALSE,
                          raw |-> "{...}"] : d \in objects}
                   \cup {[text |-> "json", object |-> d, around |-> TRUE,
                          raw |-> "Here is the analysis: {...} I hope this helps."] :
                             d \in objects}}

\* the file name extensions the handlers know
pdf  == <<"p", "d", "f">>
docx == <<"d", "o", "c", "x">>
txt  == <<"t", "x", "t">>

\* 10 * 1024 * 1024
MaxFileSize == 10485760

---------------------------------------------------------------------------
\* app.py (api/index.py serves the same application)

app_extract_text_from_pdf(upload) ==
    LET r == ReadPDF(upload)
    IN  IF r.raised
        THEN Extracted(Raise(HTTPException(400, "Error reading PDF: " \o r.exc)),
                       Failure("pdf", r.exc))
        ELSE Extracted(Return(r.ret), NoFailure)

app_extract_text_from_docx(upload) ==
    LET r == ReadDOCX(upload)
    IN  IF r.raised
        THEN Extracted(Raise(HTTPException(400, "Error reading DOCX: " \o r.exc)),
                       Failure("docx", r.exc))
        ELSE Extracted(Return(r.ret), NoFailure)

extract_text_from_txt(upload) ==
    LET r == decode(upload)
    IN  IF r.raised
        THEN Extracted(Raise(HTTPException(400, "Error reading TXT: " \o r.exc)),
                       Failure("utf-8", r.exc))
        ELSE Extracted(Return(r.ret), NoFailure)

required_fields ==
    [ats_score           |-> 0,
     summary_feedback    |-> "Unable to generate feedback",
     skills_feedback     |-> "Unable to analyze skills",
     experience_feedback |-> "Unable to analyze experience",
     education_feedback  |-> "Unable to analyze education",
     formatting_feedback |-> "Unable to analyze formatting",
     pros                |-> <<>>,
     cons                |-> <<>>,
     recommendations     |-> <<>>,
     matched_keywords    |-> <<>>,
     missing_keywords    |-> <<>>,
     improvement_areas   |-> <<>>,
     strengths           |-> <<>>]

\* the response call_groq_ai returns when the content is not JSON
app_fallback ==
    [ats_score           |-> 50,
     summary_feedback    |-> "Unable to parse AI response. Please try again.",
     skills_feedback     |-> "Error in analysis",
     experience_feedback |-> "Error in analysis",
     education_feedback  |-> "Error in analysis",
     formatting_feedback |-> "Error in analysis",
     pros                |-> <<"Resume uploaded successfully">>,
     cons                |-> <<"Unable to complete full analysis">>,
     recommendations     |-> <<"Please try uploading again">>,
     matched_keywords    |-> <<>>,
     missing_keywords    |-> <<>>,
     improvement_areas   |-> <<"Technical Analysis">>,
     strengths           |-> <<"File Format Compatible">>]

\* str(exc) of an HTTPException, as Starlette defines __str__
str(exc) ==
    (CASE exc.status_code = 400 -> "400"
       [] exc.status_code = 401 -> "401"
       [] exc.status_code = 429 -> "429"
       [] exc.status_code = 500 -> "500") \o ": " \o exc.detail

\* call_groq_ai setting the defaults over the fields of the reply
call_groq_ai_overwriting(reply) ==
    IF reply.kind = "error"
    THEN Raise(HTTPException(500, "Network error: " \o reply.message))
    ELSE IF reply.kind = "status"
    THEN Raise(HTTPException(500,
                   "Analysis error: "
                   \o str(HTTPException(reply.status_code,
                                        "AI service error: " \o reply.text))))
    ELSE IF reply.content.text = "json" /\ ~reply.content.around
    THEN LET result == required_fields @@ reply.content.object
         IN  IF "ats_score" \in Get(result, "ill_typed", {})
             THEN Raise(HTTPException(500, "Analysis error: invalid literal for int() with base 10: 'high'"))
             ELSE Return([result EXCEPT
                             !.ats_score = Max(0, Min(100, result.ats_score))])
    ELSE Return(app_fallback)

\* call_groq_ai letting the HTTPException it raises for the status through
call_groq_ai_passing_status(reply) ==
    IF reply.kind = "error"
    THEN Raise(HTTPException(500, "Network error: " \o reply.message))
    ELSE IF reply.kind = "status"
    THEN Raise(HTTPException(reply.status_code,
                             "AI service error: " \o reply.text))
    ELSE IF reply.content.text = "json" /\ ~reply.content.around
    THEN LET result == reply.content.object @@ required_fields
         IN  IF "ats_score" \in Get(result, "ill_typed", {})
             THEN \* int raises ValueError
                  Raise(HTTPException(500, "Analysis error: invalid literal for int() with base 10: 'high'"))
             ELSE Return([result EXCEPT
                             !.ats_score = Max(0, Min(100, result.ats_score))])
    ELSE Return(app_fallback)

\* call_groq_ai, given the reply of the remote service to its request
call_groq_ai(reply) ==
    IF reply.kind = "error"
    THEN Raise(HTTPException(500, "Network error: " \o reply.message))
    ELSE IF reply.kind = "status"
    THEN \* the HTTPException raised for the status is caught by the last
         \* except clause of the function
         Raise(HTTPException(500,
                   "Analysis error: "
                   \o str(HTTPException(reply.status_code,
                                        "AI service error: " \o reply.text))))
    ELSE IF reply.content.text = "json" /\ ~reply.content.around
    THEN LET result == reply.content.object @@ required_fields
         IN  IF "ats_score" \in Get(result, "ill_typed", {})
             THEN \* int raises ValueError
                  Raise(HTTPException(500, "Analysis error: invalid literal for int() with base 10: 'high'"))
             ELSE Return([result EXCEPT
                             !.ats_score = Max(0, Min(100, result.ats_score))])
    ELSE Return(app_fallback)

\* POST /analyze of app.py
app_analyze_resume(req, reply) ==
    LET file_ext == LastPart(lower(req.filename))
        extracted ==
            IF file_ext = pdf THEN app_extract_text_from_pdf(req.upload)
            ELSE IF file_ext = docx THEN app_extract_text_from_docx(req.upload)
            ELSE extract_text_from_txt(req.upload)
        result == call_groq_ai(reply)
        \* the object json.loads has returned
        \* the content of the completion
        content == IF reply.kind = "ok" THEN <<reply.content>> ELSE <<>>
        decoded == IF reply.kind = "ok" /\ reply.content.text = "json"
                      /\ ~reply.content.around
                   THEN <<reply.content.object>> ELSE <<>>
        \* what the remote call reported when it failed, or the content that
        \* json.loads could not decode
        refused == IF reply.kind = "error"
                   THEN Failure("remote", reply.message)
                   ELSE IF reply.kind = "status"
                   THEN Failure("remote", reply.text)
                   ELSE IF reply.content.text # "json" \/ reply.content.around
                   THEN Failure("json", reply.content.raw)
                   ELSE NoFailure
    IN  IF req.filename = <<>>
        THEN Outcome(HTTPError(HTTPException(400, "No file uploaded")),
                     <<>>, 0, NoFailure, 0)
        ELSE IF file_ext \notin {pdf, docx, txt}
        THEN Outcome(HTTPError(HTTPException(400, "Unsupported file format. Please upload PDF, DOCX, or TXT files.")),
                     <<>>, 0, NoFailure, 0)
        ELSE IF req.upload.size > MaxFileSize
        THEN Outcome(HTTPError(HTTPException(400, "File size must be less than 10MB")),
                     <<>>, 0, NoFailure, 0)
        ELSE IF req.upload.size = 0
        THEN Outcome(HTTPError(HTTPException(400, "Uploaded file is empty")),
                     <<>>, 0, NoFailure, 0)
        ELSE IF extracted.raised
        THEN Outcome(HTTPError(extracted.exc), <<>>, 1, extracted.failure, 0)
        ELSE IF extracted.ret.chars = 0 \/ extracted.ret.stripped < 50
        THEN Outcome(HTTPError(HTTPException(400, "Could not extract sufficient text from the file. Please ensure your resume contains readable text.")),
                     <<extracted.ret>>, 1, NoFailure, 0)
        ELSE IF result.raised
        THEN [Outcome(HTTPError(result.exc), <<extracted.ret>>, 1, refused, 1)
              EXCEPT !.calls.decoded = decoded, !.calls.content = content]
        ELSE IF Get(result.ret, "ill_typed", {}) # {}
        THEN \* AnalysisResult(**result) raises ValidationError
             [Outcome(HTTPError(HTTPException(500, "Error processing your resume: 1 validation error for AnalysisResult. Please try again.")),
                      <<extracted.ret>>, 1, refused, 1)
              EXCEPT !.calls.decoded = decoded, !.calls.content = content]
        ELSE [Outcome(JSONResponse(200, result.ret), <<extracted.ret>>, 1,
                      refused, 1)
              EXCEPT !.calls.decoded = decoded, !.calls.content = content]

\* the replies the remote service gives to app.py; the last objects but one
\* have a string for the score and null for a list
AppReplies(api_key) ==
    IF api_key = ""
    THEN {[kind |-> "error", message |-> "Connection refused"],
          [kind |-> "status", status_code |-> 401,
           message |-> "401 Client Error: Unauthorized",
           text |-> "Invalid API Key"]}
    ELSE Replies({[ats_score |-> 85, summary_feedback |-> "A solid resume.",
                   pros |-> <<"Clear layout">>, cons |-> <<"No summary">>,
                   strengths |-> <<"Python">>],
                  [ats_score |-> 150],
                  [ats_score |-> 0 - 5],
                  [ats_score |-> "high", ill_typed |-> {"ats_score"}],
                  [ats_score |-> 70, pros |-> None, ill_typed |-> {"pros"}],
                  EmptyDict})

---------------------------------------------------------------------------
\* index.py

index_extract_text_from_pdf(upload) ==
    LET r == ReadPDF(upload)
    IN  IF r.raised
        THEN Extracted(Raise(HTTPException(400, "Error processing PDF: " \o r.exc)),
                       Failure("pdf", r.exc))
        ELSE Extracted(Return(r.ret), NoFailure)

index_extract_text_from_docx(upload) ==
    LET r == ReadDOCX(upload)
    IN  IF r.raised
        THEN Extracted(Raise(HTTPException(400, "Error processing DOCX: " \o r.exc)),
                       Failure("docx", r.exc))
        ELSE Extracted(Return(r.ret), NoFailure)

\* the defaults analyze_resume_with_ai sets in the object of the reply
index_defaults ==
    [score            |-> 75,
     feedback         |-> "Resume analysis completed.",
     strengths        |-> <<>>,
     improvements     |-> <<>>,
     keywords_found   |-> <<>>,
     keywords_missing |-> <<>>]

\* the response analyze_resume_with_ai returns when the content is not JSON
index_fallback(ai_response) ==
    [score            |-> 75,
     feedback         |-> ai_response,
     strengths        |-> <<"Professional experience included",
                            "Educational background present">>,
     improvements     |-> <<"Add more specific achievements",
                            "Include relevant keywords">>,
     keywords_found   |-> <<>>,
     keywords_missing |-> <<>>]

\* analyze_resume_with_ai without the except clause for JSONDecodeError
analyze_resume_with_ai_strict(reply) ==
    IF reply.kind \in {"error", "status"}
    THEN Raise(HTTPException(500, "AI analysis failed: " \o reply.message))
    ELSE IF reply.content.text = "json"
    THEN Return(reply.content.object @@ index_defaults)
    ELSE Raise(HTTPException(500, "Unexpected error: Expecting value: line 1 column 1 (char 0)"))

\* analyze_resume_with_ai, given the reply of the remote service
analyze_resume_with_ai(reply) ==
    IF reply.kind \in {"error", "status"}
    THEN Raise(HTTPException(500, "AI analysis failed: " \o reply.message))
    ELSE IF reply.content.text = "json"
    THEN Return(reply.content.object @@ index_defaults)
    ELSE Return(index_fallback(reply.content.raw))

\* POST /analyze of index.py
index_analyze_resume(api_key, req, reply) ==
    LET name == lower(req.filename)
        extracted ==
            IF endswith(name, <<".">> \o pdf)
            THEN index_extract_text_from_pdf(req.upload)
            ELSE IF endswith(name, <<".">> \o docx)
            THEN index_extract_text_from_docx(req.upload)
            ELSE LET r == decode(req.upload)
                 IN  Extracted(r, IF r.raised THEN Failure("utf-8", r.exc)
                                  ELSE NoFailure)
        analysis == analyze_resume_with_ai(reply)
        \* what the remote call reported when it failed, or the content that
        \* json.loads could not decode
        refused == IF reply.kind \in {"error", "status"}
                   THEN Failure("remote", reply.message)
                   ELSE IF reply.content.text # "json"
                   THEN Failure("json", reply.content.raw)
                   ELSE NoFailure
    IN  IF api_key = ""
        THEN Outcome(HTTPError(HTTPException(500, "AI service configuration error")),
                     <<>>, 0, NoFailure, 0)
        ELSE IF req.upload.size > MaxFileSize
        THEN Outcome(HTTPError(HTTPException(400, "File size too large (max 10MB)")),
                     <<>>, 0, NoFailure, 0)
        ELSE IF ~ \E ext \in {pdf, docx, txt} :
                      endswith(name, <<".">> \o ext)
        THEN Outcome(HTTPError(HTTPException(400, "Unsupported file type. Please upload PDF, DOCX, or TXT files.")),
                     <<>>, 0, NoFailure, 0)
        ELSE IF extracted.raised
        THEN \* the extractors raise an HTTPException; nothing catches the
             \* exception of decode
             Outcome(IF extracted.failure.kind = "utf-8"
                     THEN InternalServerError("index")
                     ELSE HTTPError(extracted.exc),
                     <<>>, 1, extracted.failure, 0)
        ELSE IF extracted.ret.stripped = 0
        THEN Outcome(HTTPError(HTTPException(400, "Could not extract text from the file")),
                     <<extracted.ret>>, 1, NoFailure, 0)
        ELSE IF analysis.raised
        THEN Outcome(HTTPError(HTTPException(500, "Analysis failed: " \o str(analysis.exc))),
                     <<extracted.ret>>, 1, refused, 1)
        ELSE [Outcome(JSONResponse(200, analysis.ret), <<extracted.ret>>, 1,
                      refused, 1)
              EXCEPT !.calls.decoded =
                         IF reply.content.text = "json"
                         THEN <<reply.content.object>> ELSE <<>>,
                     !.calls.content = <<reply.content>>]

\* the replies the remote service gives to index.py
IndexReplies ==
    Replies({[score |-> 85, feedback |-> "A solid resume.",
              strengths |-> <<"Python">>, improvements |-> <<"No summary">>],
             [score |-> 150],
             [score |-> 0 - 5],
             EmptyDict})

---------------------------------------------------------------------------
\* main.py

\* a string the code builds, by the word it starts with
Message(prefix, message) == [prefix |-> prefix, message |-> message]

\* s.startswith(word)
startswith(s, word) == s.prefix = word

\* extract_text_from_pdf of main.py returning no text when the reader fails
main_extract_text_from_pdf_silent(upload) ==
    LET r == ReadPDF(upload)
    IN  IF r.raised
        THEN Extracted(Return(EmptyText), Failure("pdf", r.exc))
        ELSE Extracted(Return(strip(r.ret)), NoFailure)

main_extract_text_from_pdf(upload) ==
    LET r == ReadPDF(upload)
    IN  IF r.raised
        THEN Extracted(Return(Message("Error", "Error extracting PDF: " \o r.exc)),
                       Failure("pdf", r.exc))
        ELSE Extracted(Return(strip(r.ret)), NoFailure)

main_extract_text_from_docx(upload) ==
    LET r == ReadDOCX(upload)
    IN  IF r.raised
        THEN Extracted(Return(Message("Error", "Error extracting DOCX: " \o r.exc)),
                       Failure("docx", r.exc))
        ELSE Extracted(Return(strip(r.ret)), NoFailure)

extract_text_from_file(upload, filename) ==
    IF endswith(lower(filename), <<".">> \o pdf)
    THEN main_extract_text_from_pdf(upload)
    ELSE IF endswith(lower(filename), <<".">> \o docx)
    THEN main_extract_text_from_docx(upload)
    ELSE IF endswith(lower(filename), <<".">> \o txt)
    THEN LET r == decode(upload)
         IN  Extracted(r, IF r.raised THEN Failure("utf-8", r.exc)
                          ELSE NoFailure)
    ELSE Extracted(Return(Message("Unsupported", "Unsupported file format. Please upload PDF, DOCX, or TXT files.")),
                   NoFailure)

get_groq_client(sdk_available, api_key, id) ==
    IF ~sdk_available THEN None
    ELSE IF api_key = "" THEN None
    ELSE Groq(api_key, id)

\* groq_direct_api, given the reply of the remote service to its request
groq_direct_api(reply) ==
    IF reply.kind = "ok" THEN reply.content ELSE None

\* get_ai_analysis making a client for every request
get_ai_analysis_rebuilding(sdk_available, client, api_key, id, sdk_reply, direct_reply) ==
    LET made == IF sdk_available
                THEN get_groq_client(sdk_available, api_key, id)
                ELSE client
        by_sdk == sdk_available /\ made # None
        first_content ==
            IF by_sdk /\ sdk_reply.kind = "ok" THEN sdk_reply.content
            ELSE None
        content == IF first_content = None THEN groq_direct_api(direct_reply)
                   ELSE first_content
    IN  [ret         |-> IF content # None /\ content.text = "json"
                         THEN content.object ELSE None,
         groq_client |-> made,
         remote      |-> (IF by_sdk THEN 1 ELSE 0)
                         + (IF first_content = None THEN 1 ELSE 0)]

\* get_ai_analysis making the direct request again when it gave no content
get_ai_analysis_retrying(sdk_available, client, api_key, id, sdk_reply, direct_reply) ==
    LET made == IF sdk_available /\ client = None
                THEN get_groq_client(sdk_available, api_key, id)
                ELSE client
        by_sdk == sdk_available /\ made # None
        first_content ==
            IF by_sdk /\ sdk_reply.kind = "ok" THEN sdk_reply.content
            ELSE None
        content == IF first_content = None THEN groq_direct_api(direct_reply)
                   ELSE first_content
    IN  [ret         |-> IF content # None /\ content.text = "json"
                         THEN content.object ELSE None,
         groq_client |-> made,
         remote      |-> (IF by_sdk THEN 1 ELSE 0)
                         + (IF first_content = None THEN 1 ELSE 0)
                         + (IF content = None THEN 1 ELSE 0)]

\* get_ai_analysis, given the global client and the replies of the remote
\* service to the request of the SDK and to the direct request; id is the
\* identity of the client object if one is made.  It returns
\* the insights, the global client it leaves and the requests it made.
get_ai_analysis(sdk_available, client, api_key, id, sdk_reply, direct_reply) ==
    LET made == IF sdk_available /\ client = None
                THEN get_groq_client(sdk_available, api_key, id)
                ELSE client
        by_sdk == sdk_available /\ made # None
        first_content ==
            IF by_sdk /\ sdk_reply.kind = "ok" THEN sdk_reply.content
            ELSE None
        content == IF first_content = None THEN groq_direct_api(direct_reply)
                   ELSE first_content
    IN  [ret         |-> IF content # None /\ content.text = "json"
                         THEN content.object ELSE None,
         groq_client |-> made,
         remote      |-> (IF by_sdk THEN 1 ELSE 0)
                         + (IF first_content = None THEN 1 ELSE 0)]

\* analyze_resume_with_hybrid_approach from the point where analyze has
\* returned deterministic_results
analyze_resume_with_hybrid_approach(deterministic_results, sdk_available, client, api_key, id, sdk_reply, direct_reply) ==
    LET ai == IF api_key # ""
              THEN get_ai_analysis(sdk_available, client, api_key, id,
                                   sdk_reply, direct_reply)
              ELSE [ret |-> None, groq_client |-> client, remote |-> 0]
        merged == merge_analysis_results(deterministic_results, ai.ret)
    IN  [raised      |-> merged.raised,
         ret         |-> merged.ret,
         ai_insights |-> ai.ret,
         groq_client |-> ai.groq_client,
         remote      |-> ai.remote]

\* the replies the remote service gives to main.py: the insights, and
\* objects with a string for the adjustment or null for a list
MainReplies ==
    Replies(Insights
            \cup {[ai_score_adjustment |-> "high",
                   ill_typed |-> {"ai_score_adjustment"}],
                  [ai_strengths |-> None, ill_typed |-> {"ai_strengths"}]})

---------------------------------------------------------------------------
\* The service: one of the three applications is deployed and handles one
\* request after the other.  Each handler is a coroutine of one event loop
\* that is suspended only while the upload is read, before it uses the state
\* of the process: from there to its response it runs without another request
\* in between.

\* no request was made, so there is no reply to it
NoReply == [kind |-> "none"]

Init ==
    /\ variant \in {"app", "index", "main"}
    /\ GROQ_API_KEY \in {"", "gsk"}
    /\ GROQ_SDK_AVAILABLE \in (IF variant = "main" THEN BOOLEAN ELSE {FALSE})
    /\ groq_client = None
    /\ tables = DeterministicATSAnalyzer
    /\ pc = "idle"
    /\ request = NoRequest
    /\ resume_text = <<>>
    /\ response = NoResponse
    /\ calls = NoCalls
    /\ args = [resume_text |-> EmptyText, job_description |-> NoJD]
    /\ ret = NoResult
    /\ first = NoResult
    /\ runs = 0

\* a client posts a file to /analyze
Receive ==
    /\ pc = "idle"
    /\ \E req \in Requests : request' = req
    /\ pc' = "received"
    /\ UNCHANGED <<variant, GROQ_API_KEY, GROQ_SDK_AVAILABLE, groq_client,
                   tables, resume_text, response, calls, args, ret, first,
                   runs>>

\* the handler has returned or raised: the response goes out
Respond(outcome, client, cls) ==
    /\ response' = outcome.response
    /\ resume_text' = outcome.resume_text
    /\ calls' = outcome.calls
    /\ groq_client' = client
    /\ tables' = cls
    /\ pc' = "responded"
    /\ UNCHANGED <<variant, GROQ_API_KEY, GROQ_SDK_AVAILABLE, request, args,
                   ret, first, runs>>

\* app.py handles the request
AppAnalyzeResume ==
    /\ pc = "received"
    /\ variant = "app"
    /\ \E reply \in AppReplies(GROQ_API_KEY) :
           Respond(app_analyze_resume(request, reply), groq_client, tables)

\* index.py handles the request
IndexAnalyzeResume ==
    /\ pc = "received"
    /\ variant = "index"
    /\ \E reply \in IndexReplies :
           Respond(index_analyze_resume(GROQ_API_KEY, request, reply),
                   groq_client, tables)

\* main.py handles the request.  The SDK and the direct request get a reply
\* each when they are made; a client object that is made gets an identity no
\* living client object has.
MainAnalyzeResume ==
    /\ pc = "received"
    /\ variant = "main"
    /\ IF request.filename = <<>>
       THEN Respond(Outcome(JSONResponse(400, [error |-> "No file uploaded"]),
                            <<>>, 0, NoFailure, 0),
                    groq_client, tables)
       ELSE \E text \in {extract_text_from_file(request.upload,
                                                request.filename)} :
         IF text.raised
         THEN Respond(Outcome(InternalServerError("main"), <<>>, 1,
                              text.failure, 0),
                      groq_client, tables)
         ELSE IF startswith(text.ret, "Error")
                 \/ startswith(text.ret, "Unsupported")
         THEN \* the body is resume_text, a message of extract_text_from_file
              \* or the text of the upload; no reader was called for a name
              \* without a known extension
              Respond(Outcome(JSONResponse(400,
                                  [error |-> IF "message" \in DOMAIN text.ret
                                             THEN text.ret.message
                                             ELSE text.ret]),
                              <<text.ret>>,
                              IF /\ "message" \in DOMAIN text.ret
                                 /\ startswith(text.ret, "Unsupported")
                              THEN 0 ELSE 1,
                              text.failure, 0),
                      groq_client, tables)
         ELSE \E deterministic_results \in
                    {analyze(text.ret, request.job_description, tables)} :
           IF deterministic_results.hang
           THEN /\ pc' = "hung"
                /\ resume_text' = <<text.ret>>
                /\ calls' = [NoCalls EXCEPT !.parser = 1, !.scorer = 1,
                                            !.failure = text.failure]
                /\ tables' = deterministic_results.cls
                /\ UNCHANGED <<variant, GROQ_API_KEY, GROQ_SDK_AVAILABLE,
                               groq_client, request, response, args, ret,
                               first, runs>>
           ELSE \E sdk_reply \in
                      (IF GROQ_API_KEY # "" /\ GROQ_SDK_AVAILABLE
                       THEN MainReplies ELSE {NoReply}) :
                \E direct_reply \in
                      (IF GROQ_API_KEY # "" /\ sdk_reply.kind # "ok"
                       THEN MainReplies ELSE {NoReply}) :
                \E id \in {1, 2} \ {Get(groq_client, "id", 0)} :
                \E analysis \in
                      {analyze_resume_with_hybrid_approach(
                           deterministic_results.result, GROQ_SDK_AVAILABLE,
                           groq_client, GROQ_API_KEY, id, sdk_reply,
                           direct_reply)} :
                  Respond([Outcome(IF analysis.raised
                                   THEN InternalServerError("main")
                                   ELSE JSONResponse(200, analysis.ret),
                                   <<text.ret>>, 1, text.failure,
                                   analysis.remote)
                           EXCEPT !.calls.scorer = 1,
                                  !.calls.constructed =
                                      groq_client = None
                                      /\ analysis.groq_client # None,
                                  !.calls.decoded =
                                      IF analysis.ai_insights # None
                                      THEN <<analysis.ai_insights>>
                                      ELSE <<>>,
                                  !.calls.content =
                                      IF sdk_reply.kind = "ok"
                                      THEN <<sdk_reply.content>>
                                      ELSE IF direct_reply.kind = "ok"
                                      THEN <<direct_reply.content>>
                                      ELSE <<>>],
                          analysis.groq_client, deterministic_results.cls)

\* the client has the response; the worker waits for the next request
Close ==
    /\ pc = "responded"
    /\ pc' = "idle"
    /\ request' = NoRequest
    /\ resume_text' = <<>>
    /\ response' = NoResponse
    /\ calls' = NoCalls
    /\ UNCHANGED <<variant, GROQ_API_KEY, GROQ_SDK_AVAILABLE, groq_client,
                   tables, args, ret, first, runs>>

Next ==
    \/ Receive
    \/ AppAnalyzeResume
    \/ IndexAnalyzeResume
    \/ MainAnalyzeResume
    \/ Close

Spec == Init /\ [][Next]_vars

---------------------------------------------------------------------------
\* Properties of the scorer (checked under SpecScorer)

\* C1: the ats_score that analyze returns and the ats_score that
\* merge_analysis_results returns are integers from 0 to 100, for every text,
\* job description and integer ai_score_adjustment
C1_ScoreInRange ==
    pc \in {"analyzed", "merged"} => ret.ats_score \in 0..100

\* the adjustment took a score below 100 to the upper end of the range
C1_Witness ==
    /\ pc = "merged"
    /\ first.ats_score \in 91..99
    /\ ret.ats_score = 100

\* C2: analyze terminates and returns a result for every resume text and job
\* description, also when no metric-driven strength sentence is produced
C2_AnalyzeTotal ==
    pc # "hung"

\* C3: the score _calculate_final_score returns is at most 80 without an email
\* address, at most 70 without a quantified achievement and at most 65 with
\* fewer than 3 recognised sections, whatever the sub-scores are
C3_Ceilings ==
    pc \in {"scored", "analyzed"} =>
        /\ ~Get(ret.detailed_metrics, "has_email", FALSE)
               => ret.ats_score <= 80
        /\ Get(ret.detailed_metrics, "quantified_achievements", 0) = 0
               => ret.ats_score <= 70
        /\ Len(Get(ret.detailed_metrics, "found_sections", <<>>)) < 3
               => ret.ats_score <= 65

\* the ceiling for a missing email address is what decided the score
C3_Witness ==
    /\ pc = "scored"
    /\ ~Get(ret.detailed_metrics, "has_email", FALSE)
    /\ Get(ret.detailed_metrics, "quantified_achievements", 0) > 0
    /\ Len(Get(ret.detailed_metrics, "found_sections", <<>>)) >= 3
    /\ ret.ats_score = 80

\* C5: a second run of analyze on the same text and job description yields the
\* same ats_score and the same present and missing keywords as the first,
\* whatever the global groq_client is, and no run changes the tables of the
\* class
C5_Deterministic ==
    /\ tables = DeterministicATSAnalyzer
    /\ runs = MaxRuns /\ pc = "analyzed" =>
           /\ ret.ats_score = first.ats_score
           /\ ret.keyword_analysis.present_keywords
                  = first.keyword_analysis.present_keywords
           /\ ret.keyword_analysis.missing_keywords
                  = first.keyword_analysis.missing_keywords

\* the second run was made after the global client had been made, on a text
\* with verbs and keywords of the tables
C5_Witness ==
    /\ runs = MaxRuns
    /\ pc = "analyzed"
    /\ groq_client # None
    /\ ret.detailed_metrics.high_impact_verbs # <<>>
    /\ ret.keyword_analysis.present_keywords # <<>>
    /\ ret.keyword_analysis.missing_keywords # <<>>

---------------------------------------------------------------------------
\* Properties of the service (checked under Spec)

\* C4: the ats_score in a response of main.py is at most 80 without an email
\* address, at most 70 without a quantified achievement and at most 65 with
\* fewer than 3 recognised sections, also after the adjustment of the remote
\* service has been merged in
C4_HybridCeilings ==
    variant = "main" /\ pc = "responded" /\ response.status_code = 200 =>
        /\ ~Get(response.body.detailed_metrics, "has_email", FALSE)
               => response.body.ats_score <= 80
        /\ Get(response.body.detailed_metrics, "quantified_achievements", 0) = 0
               => response.body.ats_score <= 70
        /\ Len(Get(response.body.detailed_metrics, "found_sections", <<>>)) < 3
               => response.body.ats_score <= 65

\* C7: in a response of main.py no string occurs twice in strengths, in
\* areas_for_improvement or in recommendations, with or without insights of
\* the remote service
C7_NoDuplicates ==
    variant = "main" /\ pc = "responded" /\ response.status_code = 200 =>
        \A list \in {response.body.strengths,
                      response.body.areas_for_improvement,
                      response.body.recommendations} :
            \A i, j \in DOMAIN list : list[i] = list[j] => i = j

\* C8: in app.py, index.py and main.py a request whose extracted text has
\* fewer than 50 characters is rejected with a client error, and neither the
\* remote service nor the deterministic scorer is called for it
C8_ShortTextRejected ==
    /\ resume_text # <<>>
    /\ "chars" \in DOMAIN resume_text[1]
    /\ resume_text[1].chars < 50
    => /\ pc = "responded"
       /\ response.status_code \in 400..499
       /\ calls.scorer = 0
       /\ calls.remote = 0

\* C9: in app.py and in main.py, when the PDF or DOCX reader fails on the
\* uploaded bytes the request ends with status 400 and the message of the
\* reader in the body, and neither scorer is called
C9_ParserFailure ==
    variant \in {"app", "main"} /\ calls.failure.kind \in {"pdf", "docx"} =>
        /\ pc = "responded"
        /\ response.status_code = 400
        /\ \E label \in {"Error reading PDF: ", "Error reading DOCX: ",
                         "Error extracting PDF: ", "Error extracting DOCX: "} :
               response.body \in {[detail |-> label \o calls.failure.message],
                                  [error |-> label \o calls.failure.message]}
        /\ calls.scorer = 0
        /\ calls.remote = 0

\* main.py has answered a file named .pdf that is no PDF document
C9_Witness ==
    /\ variant = "main"
    /\ pc = "responded"
    /\ calls.failure.kind = "pdf"
    /\ request.upload.format # "pdf"
    /\ response.status_code = 400

\* C10: in app.py, index.py and main.py a .txt upload that is not valid UTF-8
\* is answered with a client error; the exception of the decoder does not
\* leave the handler
C10_InvalidUtf8 ==
    calls.failure.kind = "utf-8" =>
        /\ pc = "responded"
        /\ response.status_code \in 400..499

\* C11: in app.py, index.py and main.py a file whose name does not end,
\* in any case of the letters, with .pdf, .docx or .txt is answered with
\* status 400, and no reader, no scorer and no remote service is called for it
C11_UnsupportedRejected ==
    /\ pc = "responded"
    /\ ~ \E ext \in {pdf, docx, txt} :
             endswith(lower(request.filename), <<".">> \o ext)
    => /\ response.status_code = 400
       /\ calls.parser = 0
       /\ calls.scorer = 0
       /\ calls.remote = 0

\* C12: in app.py, index.py and main.py, without GROQ_API_KEY a readable
\* document of at least 50 characters under a supported name is answered with
\* status 200 by the deterministic scorer, and no request goes to the remote
\* service
C12_NoKeyStillAnalyses ==
    /\ GROQ_API_KEY = ""
    /\ pc = "responded"
    /\ \E ext \in {pdf, docx, txt} :
          /\ endswith(lower(request.filename), <<".">> \o ext)
          /\ request.upload.format = (IF ext = txt THEN "text"
                                      ELSE IF ext = pdf THEN "pdf" ELSE "docx")
    /\ request.upload.size \in 1..MaxFileSize
    /\ request.upload.text.stripped >= 50
    => /\ response.status_code = 200
       /\ calls.scorer = 1
       /\ calls.remote = 0

\* C13: the ats_score that call_groq_ai of app.py returns and the score that
\* analyze_resume_with_ai of index.py returns, which the handlers send as they
\* are, lie between 0 and 100 whatever number the remote service replied
C13_RemoteScoreClamped ==
    pc = "responded" /\ response.status_code = 200 =>
        /\ variant = "app" => response.body.ats_score \in 0..100
        /\ variant = "index" => response.body.score \in 0..100

\* C14: no request makes more than one request to the remote service
C14_SingleRemoteCall ==
    calls.remote <= 1

\* C14 as amended: app.py and index.py make at most one request to the remote
\* service for a request; main.py makes none without GROQ_API_KEY, at most one
\* without the SDK and at most two with it, the request of the SDK and the
\* direct request that follows when the SDK gave no content
C14_RemoteCallsAmended ==
    /\ variant \in {"app", "index"} => calls.remote <= 1
    /\ variant = "main" =>
           calls.remote <= (IF GROQ_API_KEY = "" THEN 0
                            ELSE IF GROQ_SDK_AVAILABLE THEN 2 ELSE 1)

\* main.py has answered after the SDK and the direct request were both made
C14_Witness ==
    /\ variant = "main"
    /\ pc = "responded"
    /\ response.status_code = 200
    /\ calls.remote = 2

\* C15: in app.py and in index.py, when the request to the remote service
\* fails or is answered with an error status, the response has status 500 and
\* a detail that ends with what the remote call reported
C15_RemoteFailure ==
    variant \in {"app", "index"} /\ calls.failure.kind = "remote" =>
        /\ pc = "responded"
        /\ calls.remote = 1
        /\ response.status_code = 500
        /\ \E label \in {"Network error: ",
                         "Analysis error: 401: AI service error: ",
                         "Analysis error: 429: AI service error: ",
                         "Analysis failed: 500: AI analysis failed: "} :
               response.body = [detail |-> label \o calls.failure.message]

\* app.py has answered a request for which the remote service replied with
\* status 429
C15_Witness ==
    /\ variant = "app"
    /\ pc = "responded"
    /\ calls.failure = Failure("remote", "Rate limit reached")
    /\ response.status_code = 500

\* C16: in app.py and in index.py, when the content of the reply is not JSON
\* the response has status 200 and a body that is the same for every such
\* content
C16_FixedDefault ==
    variant \in {"app", "index"} /\ calls.failure.kind = "json" =>
        /\ pc = "responded"
        /\ response.status_code = 200
        /\ variant = "app" => response.body = app_fallback
        /\ variant = "index" =>
               \A ai_response \in {"", "A strong resume overall."} :
                   response.body = index_fallback(ai_response)

\* C16 as amended: when the content of the reply is not JSON the response has
\* status 200; its body is the fixed fallback of call_groq_ai in app.py, and
\* in index.py score 75, the four fixed lists and the content of the reply
\* as feedback
C16_DefaultAmended ==
    variant \in {"app", "index"} /\ calls.failure.kind = "json" =>
        /\ pc = "responded"
        /\ response.status_code = 200
        /\ variant = "app" => response.body = app_fallback
        /\ variant = "index" =>
               response.body = index_fallback(calls.failure.message)

\* index.py has answered a request for which the remote service replied in
\* prose
C16_Witness ==
    /\ variant = "index"
    /\ pc = "responded"
    /\ calls.failure = Failure("json", "A strong resume overall.")
    /\ response.status_code = 200
    /\ response.body.score = 75

\* C17: in app.py and in main.py, when the content of a successful reply
\* decodes to a JSON object the response has status 200, whatever the types
\* of the values of the object
C17_MalformedAbsorbed ==
    /\ variant \in {"app", "main"}
    /\ pc = "responded"
    /\ calls.decoded # <<>>
    => response.status_code = 200

\* C18: when the reply decodes to an object, the result of call_groq_ai
\* (app.py) and of analyze_resume_with_ai (index.py), which the handler sends,
\* has every required field: a field of the reply has the replied value
\* (in app.py the ats_score cut to 0..100), a field the reply lacks has the
\* default of the code
C18_Backfill ==
    /\ variant \in {"app", "index"}
    /\ pc = "responded"
    /\ calls.decoded # <<>>
    /\ response.status_code = 200
    => LET reply == calls.decoded[1]
           defaults == IF variant = "app" THEN required_fields
                       ELSE index_defaults
       IN  /\ DOMAIN defaults \subseteq DOMAIN response.body
           /\ \A field \in DOMAIN defaults :
                  IF field \notin DOMAIN reply
                  THEN response.body[field] = defaults[field]
                  ELSE IF field = "ats_score"
                  THEN response.body[field] = Max(0, Min(100, reply[field]))
                  ELSE response.body[field] = reply[field]
           /\ variant = "app" /\ reply = EmptyDict =>
                  /\ response.body.ats_score = 0
                  /\ response.body.summary_feedback
                         = "Unable to generate feedback"
                  /\ response.body.pros = <<>>
           /\ variant = "index" /\ reply = EmptyDict =>
                  /\ response.body.score = 75
                  /\ response.body.feedback = "Resume analysis completed."
                  /\ response.body.strengths = <<>>

\* app.py has answered with a result in which one feedback came with the
\* reply and another did not
C18_Witness ==
    /\ variant = "app"
    /\ pc = "responded"
    /\ response.status_code = 200
    /\ calls.decoded # <<>>
    /\ "summary_feedback" \in DOMAIN calls.decoded[1]
    /\ "skills_feedback" \notin DOMAIN calls.decoded[1]
    /\ response.body.summary_feedback = "A solid resume."
    /\ response.body.skills_feedback = "Unable to analyze skills"

\* C19: in a main.py process the global groq_client, once it is not None, is
\* never replaced: every later request leaves the same object in place
C19_ClientMadeOnce ==
    [][groq_client # None => groq_client' = groq_client]_vars

\* main.py has answered a request for which the SDK was called through a
\* client object that an earlier request had made
C19_Witness ==
    /\ variant = "main"
    /\ pc = "responded"
    /\ GROQ_SDK_AVAILABLE
    /\ groq_client # None
    /\ ~calls.constructed
    /\ calls.remote >= 1

\* C20: in app.py, index.py and main.py an upload of more than 10 MB is
\* answered with a client error, and no reader, no scorer and no remote
\* service is called for it
C20_LargeUploadRejected ==
    pc \in {"responded", "hung"} /\ request.upload.size > MaxFileSize =>
        /\ pc = "responded"
        /\ response.status_code \in 400..499
        /\ calls.parser = 0
        /\ calls.scorer = 0
        /\ calls.remote = 0

---------------------------------------------------------------------------
\* Properties of the merge (checked under SpecScorer)

\* C22: the ats_score merge_analysis_results returns is the deterministic
\* score plus the ai_score_adjustment cut to -10..10 (0 when the insights
\* lack it), cut to 0..100; it is within 10 of the deterministic score and
\* equal to it when ai_insights is None
C22_MergedScore ==
    pc = "merged" =>
        LET d == args.deterministic.ats_score
            a == IF "ai_score_adjustment" \in DOMAIN args.ai_insights
                 THEN args.ai_insights.ai_score_adjustment ELSE 0
            cut == IF a < 0 - 10 THEN 0 - 10 ELSE IF a > 10 THEN 10 ELSE a
            sum == d + cut
        IN  /\ ret.ats_score =
                   (IF sum < 0 THEN 0 ELSE IF sum > 100 THEN 100 ELSE sum)
            /\ ret.ats_score - d \in (0 - 10)..10
            /\ args.ai_insights = None => ret.ats_score = d

\* an adjustment beyond 10 was merged into a score that had room for more
C22_Witness ==
    /\ pc = "merged"
    /\ "ai_score_adjustment" \in DOMAIN args.ai_insights
    /\ args.ai_insights.ai_score_adjustment > 10
    /\ args.deterministic.ats_score < 88
    /\ ret.ats_score = args.deterministic.ats_score + 10

\* C23: each list merge_analysis_results merges (strengths and
\* areas_for_improvement cut to 6, recommendations to 7, missing_keywords to
\* 8) starts with the items of the remote service and goes on with the
\* deterministic items; a deterministic item is missing from it only if the
\* list is cut or has the same string already
C23_MergedLists ==
    pc = "merged" /\ Truthy(args.ai_insights) =>
        LET Merged(ai, before, after, cap) ==
                /\ Len(after) <= cap
                /\ ai # <<>> => after # <<>> /\ after[1] = ai[1]
                /\ \A i \in DOMAIN before :
                       InSeq(before[i], after) \/ Len(after) = cap
            ai_keywords ==
                Get(args.ai_insights, "ai_keyword_suggestions", <<>>)
        IN  /\ Merged(Get(args.ai_insights, "ai_strengths", <<>>),
                      args.deterministic.strengths, ret.strengths, 6)
            /\ Merged(Get(args.ai_insights, "ai_improvements", <<>>),
                      args.deterministic.areas_for_improvement,
                      ret.areas_for_improvement, 6)
            /\ Merged(Get(args.ai_insights, "ai_recommendations", <<>>),
                      args.deterministic.recommendations,
                      ret.recommendations, 7)
            /\ ai_keywords # <<>> =>
                   Merged(ai_keywords,
                          Get(args.deterministic.keyword_analysis,
                              "missing_keywords", <<>>),
                          Get(ret.keyword_analysis, "missing_keywords", <<>>),
                          8)

\* C24: after merge_analysis_results has returned, every field of its
\* argument deterministic, keyword_analysis.missing_keywords included, has the
\* value it had before the call
C24_ArgumentUnchanged ==
    pc = "merged" => args.deterministic_after = args.deterministic

---------------------------------------------------------------------------
\* Properties of the analyses (checked under SpecScorer)

C21_ContactScore ==
    pc = "sub-scored" =>
        LET t == args.resume_text
            m == ret.metrics
            points == (IF m.has_email THEN 25 ELSE 0)
                      + (IF m.has_phone THEN 25 ELSE 0)
                      + (IF m.has_linkedin THEN 20 ELSE 0)
                      + (IF m.has_location THEN 15 ELSE 0)
                      + (IF m.has_professional_link THEN 15 ELSE 0)
        IN  /\ m.has_email = t.email
            /\ m.has_phone = t.phone
            /\ m.has_linkedin = ("linkedin" \in t.tokens)
            /\ m.has_location =
                   (t.locPat \/ Contains(t, "city") \/ Contains(t, "state")
                    \/ Contains(t, "country") \/ Contains(t, "location")
                    \/ Contains(t, "address") \/ Contains(t, "remote"))
            /\ m.has_professional_link =
                   (Contains(t, "github") \/ Contains(t, "portfolio")
                    \/ Contains(t, "gitlab") \/ Contains(t, "bitbucket")
                    \/ Contains(t, "website"))
            /\ ret.returned[2] = points
            /\ ret.scores.contact = points
            /\ m.has_email /\ m.has_phone => ret.returned[2] >= 50

\* a text with an email address and a phone number but not every indicator
C21_Witness ==
    /\ pc = "sub-scored"
    /\ ret.metrics.has_email
    /\ ret.metrics.has_phone
    /\ ret.returned[2] \in 50..99

\* C26: every sub-score analyze weighs (contact, structure, keyword_score,
\* achievements, verbs, formatting, content, ats_compat, jd_match) is an
\* integer from 0 to 100, also when all bonuses of a category apply
C26_SubScoresInRange ==
    pc = "sub-scored" =>
        /\ \A k \in {2, 3, 5, 6, 7, 8, 9, 10} : ret.returned[k] \in 0..100
        /\ ret.returned[4].keyword_score \in 0..100

\* all eight sections, three clear headers and years in falling order: 115
\* points for the structure before the cut
C26_Witness ==
    /\ pc = "sub-scored"
    /\ Len(ret.metrics.found_sections) = 8
    /\ args.resume_text.headers >= 3
    /\ Len(args.resume_text.years) >= 2
    /\ ret.returned[3] = 100

---------------------------------------------------------------------------
\* Properties of the decoding of replies (checked under Spec)

\* C27: a completion whose content is one JSON object with a sentence before
\* its '{' and after its '}' is decoded to that object by every variant:
\* json.loads returns the object and the handler goes on with it
C27_WrappedDecoded ==
    /\ pc = "responded"
    /\ calls.content # <<>>
    /\ calls.content[1].text = "json"
    /\ calls.content[1].around
    => calls.decoded = <<calls.content[1].object>>

---------------------------------------------------------------------------
\* Properties of the keyword analysis (checked under SpecScorer)

\* C28: for one job description, a resume that lacks none of its top
\* keywords gets a keyword_score at least as high as the resume that differs
\* from it only by lacking one of them
C28_KeywordMonotone ==
    pc = "compared" /\ ret.more.ret.missing_keywords = <<>>
    => ret.more.ret.keyword_score >= ret.less.ret.keyword_score

---------------------------------------------------------------------------
\* Properties of the order of the analyses (checked under SpecScorer)

\* C29 as stated: every metric and every score that an analysis, the final
\* score or a generator reads was written by an analysis that ran before it
C29_ReadAfterWrite ==
    pc = "stepping" =>
        LET metrics == DOMAIN ret.metrics
            scores  == DOMAIN ret.scores
        IN  /\ ret.done = 6 => "word_count" \in metrics
            /\ ret.done = 7 => {"word_count", "sentence_count",
                                "found_keywords"} \subseteq metrics
            /\ ret.done = 8 => {"clear_headers", "bullet_points"}
                                   \subseteq metrics
            /\ ret.done = 10 =>
                   /\ {"has_email", "quantified_achievements",
                       "found_sections", "high_impact_verbs",
                       "keyword_count", "has_linkedin",
                       "has_professional_link", "career_progression",
                       "word_count", "optimal_length", "bullet_points"}
                          \subseteq metrics
                   /\ {"formatting", "achievements", "jd_match"}
                          \subseteq scores

\* C29 amended: every metric that a step reads, and the formatting and
\* achievements scores, were written by an analysis that ran before it; the
\* jd_match score is written exactly when the job description has a word of
\* four or more letters that is no common word, and _generate_improvements
\* works on its default otherwise
C29_ReadAfterWriteAmended ==
    pc = "stepping" =>
        LET metrics == DOMAIN ret.metrics
            scores  == DOMAIN ret.scores
            jd      == args.job_description
        IN  /\ ret.done = 6 => "word_count" \in metrics
            /\ ret.done = 7 => {"word_count", "sentence_count",
                                "found_keywords"} \subseteq metrics
            /\ ret.done = 8 => {"clear_headers", "bullet_points"}
                                   \subseteq metrics
            /\ ret.done = 10 =>
                   /\ {"has_email", "quantified_achievements",
                       "found_sections", "high_impact_verbs",
                       "keyword_count", "has_linkedin",
                       "has_professional_link", "career_progression",
                       "word_count", "optimal_length", "bullet_points"}
                          \subseteq metrics
                   /\ {"formatting", "achievements"} \subseteq scores
                   /\ "jd_match" \in scores
                      <=> \E i \in DOMAIN jd.words :
                              /\ Len(jd.words[i]) >= 4
                              /\ jd.words[i] \notin CommonWords

\* the ten analyses have run on a text without a header line for a job
\* description of symbols: clear_headers is written, jd_match is not
C29_Witness ==
    /\ pc = "stepping"
    /\ ret.done = 10
    /\ args.job_description.given
    /\ args.resume_text.headers = 0
    /\ "clear_headers" \in DOMAIN ret.metrics
    /\ "jd_match" \notin DOMAIN ret.scores

---------------------------------------------------------------------------
\* Properties of the upload handling of main.py (checked under Spec)

\* C30: main.py hands every text that a reader has extracted from a .pdf,
\* .docx or .txt upload to the analyzer, whatever the text is, and answers
\* 400 only when the extraction failed or the extension is not supported
C30_TextNotTakenForError ==
    /\ pc = "responded"
    /\ variant = "main"
    => LET supported ==
               \E ext \in {pdf, docx, txt} :
                   endswith(lower(request.filename), <<".">> \o ext)
       IN  /\ supported /\ calls.parser = 1 /\ calls.failure = NoFailure
              => calls.scorer = 1
           /\ response.status_code = 400
              => ~supported \/ calls.failure # NoFailure

====
